---- MODULE Spec2Model ----
(***************************************************************************)
(* A model of msh, a small POSIX shell (justinmayhew/msh).                 *)
(*                                                                         *)
(* The module holds several specifications over one set of variables:      *)
(*   SpecExec     interpreter::execute: spawn_children and the signal-wait *)
(*                / waitpid reaping loop, interleaved with the children.   *)
(*   FairSpecExec the same with weak fairness on the parent's steps.       *)
(*   SpecExpand   Word::expand applied to every word up to MaxWordLen.     *)
(*   SpecPair     Word::parse_name_value_pair applied to every word.       *)
(*   SpecEnv      the interpreter running assignment, export and command   *)
(*                statements against its Environment and Cwd.              *)
(*   SpecLex      Lexer::next called until the input is exhausted.         *)
(*   SpecParse    parser::parse applied to a script.                       *)
(* Each specification leaves the variables of the other parts unchanged.   *)
(***************************************************************************)
EXTENDS Integers, Sequences, FiniteSets, TLC

VARIABLES
    \* ---- interpreter::execute (src/src/interpreter.rs) ----
    pc,          \* the parent's position in execute
    ncmds,       \* number of commands in the pipeline being executed
    forked,      \* number of children forked so far (pids 1..forked)
    child,       \* pid -> "unborn" | "running" | "zombie" | "reaped"
    outcome,     \* pid -> how the child terminated (WaitStatus)
    pids,        \* the HashSet<Pid> of spawn_children / execute
    last_pid,    \* pid of the pipeline's last child (0 before it is forked)
    status,      \* the local `status` of execute
    mask,        \* the shell's blocked-signal mask
    mask0,       \* the mask the shell had when execute was entered
    pending,     \* signals pending for the shell process
    removed,     \* pid -> number of successful pids.remove(&pid)
    interrupts,  \* number of SIGINT/SIGQUIT sent so far (bounded)
    \* ---- Word / Environment (src/src/word.rs, src/src/environment.rs) ----
    env,         \* Environment.values: name -> [value, is_exported]
    passwd,      \* the host's password database: user name -> pw_dir
    word,        \* the Word an operation of word.rs is applied to
    wresult,     \* what the operation returned
    \* ---- Interpreter (src/src/interpreter.rs, cwd.rs, command.rs) ----
    cwd,         \* Cwd: [path, last (an Option)]
    shell,       \* "running", or "exited" after process::exit
    exitCode,    \* the code handed to process::exit
    childEnvs,   \* env arrays of the children the last command spawned
    lastOp,      \* the operation the interpreter performed last
    everExported, \* names that were exported at some time so far
    \* ---- Lexer (src/src/lexer.rs) ----
    script,      \* the bytes handed to Lexer::new
    lexer,       \* struct Lexer: [src, line, peek, next, last, panic]
    tokens,      \* the tokens Lexer::next has yielded so far, in order
    lexStatus,   \* "running", or how the iteration ended
    \* ---- Parser (src/src/parser.rs) ----
    parsed,      \* what parse(script) returned, NoParse before the call
    \* ---- Interpreter::execute (src/src/interpreter.rs) ----
    ast,         \* the Block handed to Interpreter::execute
    frames,      \* the activations of execute, innermost last
    trace,       \* what execute has evaluated so far, in order
    returned,    \* what the outermost execute returned, <<>> before that
    \* ---- spawn_children / execute_child (src/src/interpreter.rs) ----
    cmds,        \* the ExpandedCommands of the pipeline, head first
    host,        \* what execve answers: [path: PATH index -> errno, exact]
    spawner,     \* the shell inside spawn_children
    kids,        \* pid -> the child process forked for command pid
    \* ---- repl and main (src/src/main.rs) ----
    typed,       \* the lines readline has still to return, as argvs
    repl         \* the shell inside repl: [pc, dir, prompts, printed, ...]

execVars == <<pc, ncmds, forked, child, outcome, pids, last_pid, status,
              mask, mask0, pending, removed, interrupts>>

wordVars == <<env, passwd, word, wresult>>

interpVars == <<cwd, shell, exitCode, childEnvs, lastOp, everExported>>

lexVars == <<script, lexer, tokens, lexStatus, parsed>>

runVars == <<ast, frames, trace, returned>>

spawnVars == <<cmds, host, spawner, kids>>

replVars == <<typed, repl>>

vars == <<execVars, wordVars, interpVars, lexVars, runVars, spawnVars,
          replVars>>

\* What an action of one part leaves alone.
outsideExec ==
    <<wordVars, interpVars, lexVars, runVars, spawnVars, replVars>>
outsideWord ==
    <<execVars, interpVars, lexVars, runVars, spawnVars, replVars>>
outsideInterp ==
    <<execVars, lexVars, runVars, spawnVars, replVars>>
outsideLex ==
    <<execVars, wordVars, interpVars, runVars, spawnVars, replVars>>
outsideRun ==
    <<execVars, lexVars, spawnVars, replVars>>
outsideRepl ==
    <<execVars, wordVars, interpVars, lexVars, runVars, spawnVars>>
outsideSpawn ==
    <<execVars, wordVars, interpVars, lexVars, runVars, replVars>>

(***************************************************************************)
(* Bounds of the model.                                                    *)
(***************************************************************************)
MaxPipeline == 3      \* longest pipeline executed
MaxInterrupts == 1    \* SIGINT/SIGQUIT deliveries per execute
MaxExitCode == 1      \* children exit with a code in 0..MaxExitCode
MaxWordLen == 4       \* longest word expanded or parsed, in bytes
MaxSrcLen == 5        \* longest input tokenized, in bytes
MaxRedirectLen == 5   \* longest input of redirection bytes tokenized
MaxChunks == 4        \* most pieces of shell text a parsed script is made of
MaxExitArg == 12      \* largest number given to the built-in exit
MaxTrace == 16        \* most events of one run of Interpreter::execute
MaxLines == 3         \* most lines typed into the REPL

(***************************************************************************)
(* status.rs                                                               *)
(***************************************************************************)
EXIT_SUCCESS == 0

\* impl From<i32> for Status
StatusFrom(code) == IF code = EXIT_SUCCESS THEN "Success" ELSE "Failure"

(***************************************************************************)
(* word.rs.  A byte is a one-character string, a byte string a sequence of *)
(* bytes.  Option<T> is a sequence of length 0 (None) or 1 (Some).         *)
(* Positions are 1-based here (0-based in the source); 0 means "none".     *)
(***************************************************************************)
AsciiAlphabetic ==
    {"A", "B", "C", "D", "E", "F", "G", "H", "I", "J", "K", "L", "M",
     "N", "O", "P", "Q", "R", "S", "T", "U", "V", "W", "X", "Y", "Z",
     "a", "b", "c", "d", "e", "f", "g", "h", "i", "j", "k", "l", "m",
     "n", "o", "p", "q", "r", "s", "t", "u", "v", "w", "x", "y", "z"}
AsciiDigit == {"0", "1", "2", "3", "4", "5", "6", "7", "8", "9"}

\* Quote tags: Option<Quote>
QNone == "None"
QSingle == "Single"
QDouble == "Double"
Quotes == {QNone, QSingle, QDouble}

\* Word::new
Word(buf, quote) == [value |-> buf, quote |-> quote]
\* Word::unquoted
Unquoted(buf) == Word(buf, QNone)

\* slice.iter().position(|&b| b == byte): the first index holding byte
Position(buf, byte) ==
    IF \E i \in 1..Len(buf) : buf[i] = byte
       THEN CHOOSE i \in 1..Len(buf) :
                /\ buf[i] = byte
                /\ \A j \in 1..(i - 1) : buf[j] # byte
       ELSE 0

\* &buf[from..], 1-based
From(buf, from) == SubSeq(buf, from, Len(buf))

\* fn is_valid_first_byte
is_valid_first_byte(byte) == byte \in AsciiAlphabetic \/ byte = "_"

\* fn is_valid_name_byte
is_valid_name_byte(byte) == is_valid_first_byte(byte) \/ byte \in AsciiDigit

\* fn is_valid_name
is_valid_name(input) ==
    /\ input # <<>>
    /\ is_valid_first_byte(input[1])
    /\ \A i \in 2..Len(input) : is_valid_name_byte(input[i])

\* fn home_directory: getpwnam(username).pw_dir, None when there is no user
home_directory(db, username) ==
    IF username \in DOMAIN db THEN <<db[username]>> ELSE <<>>

expand_tilde_anywhere(db, w, home) ==
    LET pos == Position(w, "~") IN
    IF pos = 0 THEN w
    ELSE SubSeq(w, 1, pos - 1) \o home \o From(w, pos + 1)

\* fn expand_tilde
expand_tilde(db, w, home) ==
    IF ~(w # <<>> /\ w[1] = "~") THEN w
    ELSE LET no_tilde == From(w, 2) IN
         IF no_tilde = <<>> THEN home
         ELSE IF no_tilde[1] = "/" THEN home \o no_tilde
         ELSE LET pos == Position(no_tilde, "/")
                  username == IF pos = 0 THEN no_tilde
                              ELSE SubSeq(no_tilde, 1, pos - 1)
                  rest == IF pos = 0 THEN <<>> ELSE From(no_tilde, pos)
                  dir == home_directory(db, username)
              IN IF dir # <<>> THEN dir[1] \o rest ELSE w

\* Environment::get
EnvGet(e, name) == IF name \in DOMAIN e THEN <<e[name].value>> ELSE <<>>

\* EnvExpander: buf, the remaining bytes, the one-byte pushback `peek`;
\* `panic` records a failed assert!(self.peek.is_none()).
EnvExpander(w, pos) ==
    [buf |-> SubSeq(w, 1, pos - 1), bytes |-> From(w, pos + 1),
     peek |-> <<>>, panic |-> FALSE]

\* EnvExpander::next_byte: the byte (an Option) and the expander after it
next_byte(x) ==
    IF x.peek # <<>> THEN [byte |-> x.peek, x |-> [x EXCEPT !.peek = <<>>]]
    ELSE IF x.bytes # <<>>
         THEN [byte |-> <<Head(x.bytes)>>,
               x |-> [x EXCEPT !.bytes = Tail(x.bytes)]]
         ELSE [byte |-> <<>>, x |-> x]

\* EnvExpander::push_byte
push_byte(x, byte) ==
    IF x.peek # <<>> THEN [x EXCEPT !.panic = TRUE]
    ELSE [x EXCEPT !.peek = <<byte>>]

\* The two predicates expand_variable hands to consume_while.
NotClosingBrace == "|b| b != b'}'"
IsValidNameByte == "is_valid_name_byte"
Holds(predicate, byte) ==
    IF predicate = NotClosingBrace THEN byte # "}"
    ELSE is_valid_name_byte(byte)

\* EnvExpander::consume_while: the expander, the collected bytes and the
\* returned bool
RECURSIVE consume_while(_, _, _, _)
consume_while(x, buf, predicate, keep_last) ==
    LET n == next_byte(x) IN
    IF n.byte = <<>> THEN [x |-> n.x, buf |-> buf, found |-> FALSE]
    ELSE IF Holds(predicate, n.byte[1])
         THEN consume_while(n.x, Append(buf, n.byte[1]), predicate, keep_last)
         ELSE [x |-> IF keep_last THEN push_byte(n.x, n.byte[1]) ELSE n.x,
               buf |-> buf, found |-> TRUE]

\* EnvExpander::append_var
append_var(e, x, name) ==
    LET v == EnvGet(e, name) IN
    IF v # <<>> THEN [x EXCEPT !.buf = x.buf \o v[1]] ELSE x

NoError == "Ok"
MissingBrace == "missing variable closing brace"
InvalidName == "invalid variable name"

expand_variable_lenient(e, x) ==
    LET n == next_byte(x) IN
    IF n.byte = <<>> THEN [x |-> [x EXCEPT !.buf = Append(x.buf, "$")],
                           err |-> NoError]
    ELSE LET c == IF n.byte[1] = "{"
                     THEN consume_while(n.x, <<>>, NotClosingBrace, FALSE)
                     ELSE consume_while(push_byte(n.x, n.byte[1]), <<>>,
                                        IsValidNameByte, TRUE)
         IN IF ~is_valid_name(c.buf)
               THEN [x |-> [c.x EXCEPT !.buf = c.x.buf \o <<"$">> \o c.buf],
                     err |-> NoError]
               ELSE [x |-> append_var(e, c.x, c.buf), err |-> NoError]

\* EnvExpander::expand_variable: the expander after it and the error, if any
expand_variable(e, x) ==
    LET n == next_byte(x) IN
    IF n.byte = <<>> THEN [x |-> [x EXCEPT !.buf = Append(x.buf, "$")],
                           err |-> NoError]
    ELSE LET c == IF n.byte[1] = "{"
                     THEN consume_while(n.x, <<>>, NotClosingBrace, FALSE)
                     ELSE consume_while(push_byte(n.x, n.byte[1]), <<>>,
                                        IsValidNameByte, TRUE)
         IN IF n.byte[1] = "{" /\ ~c.found
               THEN [x |-> c.x, err |-> MissingBrace]
               ELSE IF ~is_valid_name(c.buf)
                    THEN [x |-> c.x, err |-> InvalidName]
                    ELSE [x |-> append_var(e, c.x, c.buf), err |-> NoError]

\* Result<Cow<OsStr>>: err = NoError and the bytes, or the error
Ok(bytes) == [err |-> NoError, value |-> bytes]
Err(e) == [err |-> e, value |-> <<>>]
Panic == "panic"

\* EnvExpander::expand, the while loop after the first expand_variable
RECURSIVE expander_loop(_, _)
expander_loop(e, x) ==
    IF x.panic THEN Err(Panic)
    ELSE LET n == next_byte(x) IN
         IF n.byte = <<>> THEN Ok(n.x.buf)
         ELSE IF n.byte[1] = "$"
              THEN LET v == expand_variable(e, n.x) IN
                   IF v.err # NoError THEN Err(v.err)
                   ELSE expander_loop(e, v.x)
              ELSE expander_loop(e, [n.x EXCEPT !.buf = Append(n.x.buf,
                                                              n.byte[1])])

\* EnvExpander::expand
expander_expand(e, x) ==
    LET v == expand_variable(e, x) IN
    IF v.err # NoError THEN Err(v.err) ELSE expander_loop(e, v.x)

\* fn expand_env_vars
expand_env_vars(e, w) ==
    LET pos == Position(w, "$") IN
    IF pos # 0 THEN expander_expand(e, EnvExpander(w, pos)) ELSE Ok(w)

HOME == <<"H", "O", "M", "E">>

\* Environment::home (HOME is required to be set)
home(e) == e[HOME].value

expand_always_both(db, e, w) ==
    expand_env_vars(e, expand_tilde(db, w.value, home(e)))

expand_tilde_only(db, e, w) ==
    IF w.quote = QSingle THEN Ok(w.value)
    ELSE IF w.quote = QDouble THEN expand_env_vars(e, w.value)
    ELSE Ok(expand_tilde(db, w.value, home(e)))

\* Word::expand
expand(db, e, w) ==
    IF w.quote = QSingle THEN Ok(w.value)
    ELSE IF w.quote = QDouble THEN expand_env_vars(e, w.value)
    ELSE expand_env_vars(e, expand_tilde(db, w.value, home(e)))

\* fn parse_quoted_word: Option<Word>
parse_quoted_word(value) ==
    LET len == Len(value) IN
    IF len < 2 THEN <<>>
    ELSE IF value[1] # value[len] THEN <<>>
    ELSE IF value[1] = "'" THEN <<Word(SubSeq(value, 2, len - 1), QSingle)>>
    ELSE IF value[1] = "\"" THEN <<Word(SubSeq(value, 2, len - 1), QDouble)>>
    ELSE <<>>

\* NameValuePair::new (ast.rs)
NameValuePair(name, value) == [name |-> name, value |-> value]

parse_name_value_pair_any_eq(w) ==
    IF w.quote # QNone THEN <<>>
    ELSE LET pos == Position(w.value, "=") IN
         IF pos = 0 THEN <<>>
         ELSE LET name == SubSeq(w.value, 1, pos - 1)
                  value == From(w.value, pos + 1)
                  q == parse_quoted_word(value)
              IN <<NameValuePair(Unquoted(name),
                                 IF q # <<>> THEN q[1] ELSE Unquoted(value))>>

\* Word::parse_name_value_pair: Option<NameValuePair>
parse_name_value_pair(w) ==
    IF w.quote # QNone THEN <<>>
    ELSE LET pos == Position(w.value, "=") IN
         IF pos = 0 \/ pos = 1 THEN <<>>
         ELSE LET name == SubSeq(w.value, 1, pos - 1)
                  value == From(w.value, pos + 1)
                  q == parse_quoted_word(value)
              IN IF ~is_valid_name(name) THEN <<>>
                 ELSE <<NameValuePair(Unquoted(name),
                                      IF q # <<>> THEN q[1]
                                      ELSE Unquoted(value))>>

(***************************************************************************)
(* environment.rs                                                          *)
(***************************************************************************)
\* Var::new
Var(value, is_exported) == [value |-> value, is_exported |-> is_exported]

\* Environment::assign: the environment after it and the error, if any
assign_marks_exported(db, e, pair) ==
    LET v == expand(db, e, pair.value)
        name == pair.name.value
    IN IF v.err # NoError THEN [env |-> e, err |-> v.err]
       ELSE [env |-> (name :> Var(v.value, TRUE)) @@ e, err |-> NoError]

\* Environment::assign after `pair.value.expand(self)`: v is the Result of
\* the expansion.
assign_entry(e, name, v) ==
    IF v.err # NoError THEN [env |-> e, err |-> v.err]
    ELSE IF name \in DOMAIN e
         THEN [env |-> [e EXCEPT ![name].value = v.value], err |-> NoError]
         ELSE [env |-> (name :> Var(v.value, FALSE)) @@ e, err |-> NoError]

assign(db, e, pair) ==
    assign_entry(e, pair.name.value, expand(db, e, pair.value))

\* ast.rs Exportable::new; value is an Option<Word>
Exportable(name, value) == [name |-> name, value |-> value]

export_resets_value(db, e, exportable) ==
    LET name == exportable.name.value
        v == IF exportable.value # <<>>
                THEN expand(db, e, exportable.value[1])
                ELSE Ok(<<>>)
    IN IF v.err # NoError THEN [env |-> e, err |-> v.err]
       ELSE [env |-> (name :> Var(v.value, TRUE)) @@ e, err |-> NoError]

\* Environment::export
\* `value` is the Option<Word> of the exportable; v is the Result of
\* `value.expand(self)` when there is one.
export_entry(e, name, value, v) ==
    IF value # <<>>
       THEN IF v.err # NoError THEN [env |-> e, err |-> v.err]
            ELSE [env |-> (name :> Var(v.value, TRUE)) @@ e,
                  err |-> NoError]
       ELSE IF name \in DOMAIN e
            THEN [env |-> [e EXCEPT ![name].is_exported = TRUE],
                  err |-> NoError]
            ELSE [env |-> (name :> Var(<<>>, TRUE)) @@ e, err |-> NoError]

export(db, e, exportable) ==
    export_entry(e, exportable.name.value, exportable.value,
                 IF exportable.value # <<>>
                    THEN expand(db, e, exportable.value[1])
                    ELSE Ok(<<>>))

iter_all(e) == DOMAIN e

\* Environment::iter_exported / IterExported::next: the names it yields
iter_exported(e) == {name \in DOMAIN e : e[name].is_exported}

(***************************************************************************)
(* command.rs                                                              *)
(***************************************************************************)
\* struct Command; redirects hold [kind, path (an Option<Word>), mode],
\* pipeline is an Option<Command>
Command(name, arguments, redirects, envp, pipeline) ==
    [name |-> name, arguments |-> arguments, redirects |-> redirects,
     env |-> envp, pipeline |-> pipeline]

\* the first error of a sequence of errors, in order (the `?` operator)
RECURSIVE FirstError(_)
FirstError(errs) ==
    IF errs = <<>> THEN NoError
    ELSE IF Head(errs) # NoError THEN Head(errs)
    ELSE FirstError(Tail(errs))

\* Command::expand once every word is expanded: the first error in the
\* order of the `?`s (name, arguments, redirects, env, pipeline), or the
\* ExpandedCommand.  `next` is the Result for the pipeline (an Option).
expanded_command(c, name, arguments, redirects, envp, next) ==
    LET err == FirstError(<<name.err>>
                          \o [i \in 1..Len(arguments) |-> arguments[i].err]
                          \o [i \in 1..Len(redirects) |-> redirects[i].err]
                          \o [i \in 1..Len(envp) |-> envp[i].err]
                          \o <<next.err>>)
    IN IF err # NoError THEN [err |-> err, cmd |-> <<>>]
       ELSE [err |-> NoError,
             cmd |-> [name |-> name.value,
                      arguments |-> [i \in 1..Len(arguments) |->
                                        arguments[i].value],
                      redirects |-> [i \in 1..Len(redirects) |->
                                        [kind |-> c.redirects[i].kind,
                                         path |-> redirects[i].value,
                                         mode |-> c.redirects[i].mode]],
                      env |-> [i \in 1..Len(envp) |->
                                  <<c.env[i].name.value, envp[i].value>>],
                      pipeline |-> IF c.pipeline # <<>> THEN <<next.cmd>>
                                   ELSE <<>>]]

\* Command::expand that leaves the successors alone
command_expand_head(db, e, c) ==
    expanded_command(
        [c EXCEPT !.pipeline = <<>>],
        expand(db, e, c.name),
        [i \in 1..Len(c.arguments) |-> expand(db, e, c.arguments[i])],
        [i \in 1..Len(c.redirects) |->
            IF c.redirects[i].path # <<>>
               THEN expand(db, e, c.redirects[i].path[1])
               ELSE Ok(<<>>)],
        [i \in 1..Len(c.env) |-> expand(db, e, c.env[i].value)],
        [err |-> NoError, cmd |-> <<>>])

\* Command::expand: Result<ExpandedCommand>, as [err, cmd]
RECURSIVE command_expand(_, _, _)
command_expand(db, e, c) ==
    expanded_command(
        c,
        expand(db, e, c.name),
        [i \in 1..Len(c.arguments) |-> expand(db, e, c.arguments[i])],
        [i \in 1..Len(c.redirects) |->
            IF c.redirects[i].path # <<>>
               THEN expand(db, e, c.redirects[i].path[1])
               ELSE Ok(<<>>)],
        [i \in 1..Len(c.env) |-> expand(db, e, c.env[i].value)],
        IF c.pipeline # <<>> THEN command_expand(db, e, c.pipeline[1])
        ELSE [err |-> NoError, cmd |-> <<>>])

\* fn pair_to_execv: NAME=value
pair_to_execv(name, value) == name \o <<"=">> \o value

\* ExpandedCommand::into_execv, the env array: the exported variables, in
\* the order `order` in which the HashMap yields them, then the command's
\* own pairs.
into_execv_env(e, x, order) ==
    [i \in 1..Len(order) |-> pair_to_execv(order[i], e[order[i]].value)]
    \o [i \in 1..Len(x.env) |-> pair_to_execv(x.env[i][1], x.env[i][2])]

\* the commands of a pipeline, head first
RECURSIVE Chain(_)
Chain(x) == IF x.pipeline = <<>> THEN <<x>> ELSE <<x>> \o Chain(x.pipeline[1])

(***************************************************************************)
(* cwd.rs                                                                  *)
(***************************************************************************)
\* The directories of the host, by their canonical names; no symlinks.
Dirs == {<<"/">>, <<"/", "h">>}

\* Path::is_relative
is_relative(path) == path = <<>> \/ path[1] # "/"

\* Path::join
join(base, path) ==
    IF ~is_relative(path) THEN path
    ELSE IF base # <<>> /\ base[Len(base)] = "/" THEN base \o path
    ELSE base \o <<"/">> \o path

\* the components of a path: the byte strings between its `/`s
RECURSIVE components(_, _, _)
components(path, name, acc) ==
    IF path = <<>> THEN Append(acc, name)
    ELSE IF Head(path) = "/"
         THEN components(Tail(path), <<>>, Append(acc, name))
         ELSE components(Tail(path), Append(name, Head(path)), acc)

\* the canonical name of the parent of a directory and of its entry `name`
parent(dir) ==
    IF dir = <<"/">> THEN dir
    ELSE LET slashes == {i \in 1..Len(dir) : dir[i] = "/"}
             last == CHOOSE i \in slashes : \A j \in slashes : j <= i
         IN IF last = 1 THEN <<"/">> ELSE SubSeq(dir, 1, last - 1)

dir_entry(dir, name) ==
    IF dir = <<"/">> THEN dir \o name ELSE dir \o <<"/">> \o name

\* Path::canonicalize of an absolute path, as an Option: the components
\* are resolved from the root, an empty component and `.` name the
\* directory itself, `..` its parent, and every directory on the way has
\* to exist
RECURSIVE resolve(_, _)
resolve(dir, names) ==
    IF names = <<>> THEN <<dir>>
    ELSE IF Head(names) \in {<<>>, <<".">>} THEN resolve(dir, Tail(names))
    ELSE IF Head(names) = <<".", ".">> THEN resolve(parent(dir), Tail(names))
    ELSE IF dir_entry(dir, Head(names)) \in Dirs
         THEN resolve(dir_entry(dir, Head(names)), Tail(names))
         ELSE <<>>

canonicalize(path) == resolve(<<"/">>, components(path, <<>>, <<>>))

\* env::home_dir(): HOME of the environment of the process, which
\* Environment::new copied when the shell started and which no statement
\* of a program changes
home_dir == <<"/", "h">>

\* env::set_current_dir(path) succeeds: the path, taken from the working
\* directory of the process when it is relative, names a directory
chdir_ok(c, path) ==
    path # <<>> /\ canonicalize(join(c.path, path)) # <<>>

\* Cwd::cd that remembers the directory it could not leave
cd_tracking_failures(c, h, argv) ==
    IF Len(argv) > 1 THEN [cwd |-> c, status |-> "Failure"]
    ELSE LET path == IF argv # <<>>
                        THEN IF argv[1] = <<"-">>
                                THEN IF c.last # <<>> THEN c.last[1]
                                     ELSE c.path
                                ELSE argv[1]
                        ELSE home_dir
         IN IF ~chdir_ok(c, path)
               THEN [cwd |-> [path |-> c.path, last |-> <<c.path>>],
                     status |-> "Failure"]
               ELSE [cwd |-> [path |-> canonicalize(join(c.path, path))[1],
                              last |-> <<c.path>>],
                     status |-> "Success"]

\* Cwd::cd that sets the previous directory only once
cd_keeping_previous(c, h, argv) ==
    IF Len(argv) > 1 THEN [cwd |-> c, status |-> "Failure"]
    ELSE LET path == IF argv # <<>>
                        THEN IF argv[1] = <<"-">>
                                THEN IF c.last # <<>> THEN c.last[1]
                                     ELSE c.path
                                ELSE argv[1]
                        ELSE home_dir
         IN IF ~chdir_ok(c, path) THEN [cwd |-> c, status |-> "Failure"]
            ELSE [cwd |-> [path |-> canonicalize(join(c.path, path))[1],
                           last |-> IF c.last = <<>> THEN <<c.path>>
                                    ELSE c.last],
                  status |-> "Success"]

\* Cwd::cd, called as self.cwd.cd(self.env.home(), command.arguments()):
\* h is the path the call hands over; Cwd::cd of cwd.rs takes the
\* arguments only, and without one it asks env::home_dir()
cd(c, h, argv) ==
    IF Len(argv) > 1 THEN [cwd |-> c, status |-> "Failure"]
    ELSE LET path == IF argv # <<>>
                        THEN IF argv[1] = <<"-">>
                                THEN IF c.last # <<>> THEN c.last[1]
                                     ELSE c.path
                                ELSE argv[1]
                        ELSE home_dir
         IN IF ~chdir_ok(c, path) THEN [cwd |-> c, status |-> "Failure"]
            ELSE [cwd |-> [path |-> canonicalize(join(c.path, path))[1],
                           last |-> <<c.path>>],
                  status |-> "Success"]

(***************************************************************************)
(* interpreter.rs: Interpreter::execute_command                            *)
(***************************************************************************)
DigitChars == <<"0", "1", "2", "3", "4", "5", "6", "7", "8", "9">>
DigitValue(d) == (CHOOSE i \in 1..Len(DigitChars) : DigitChars[i] = d) - 1

RECURSIVE DigitsValue(_, _)
DigitsValue(acc, ds) ==
    IF ds = <<>> THEN acc
    ELSE DigitsValue(acc * Len(DigitChars) + DigitValue(Head(ds)), Tail(ds))

\* a parse that takes no argument for a number
parse_i32_never(arg) == <<>>

\* str::parse::<i32>() of the argument of exit, as an Option
parse_i32(arg) ==
    LET signed == arg # <<>> /\ arg[1] \in {"+", "-"}
        ds == IF signed THEN Tail(arg) ELSE arg
    IN IF ds = <<>> \/ \E i \in 1..Len(ds) : ds[i] \notin AsciiDigit
          THEN <<>>
          ELSE <<IF signed /\ arg[1] = "-" THEN 0 - DigitsValue(0, ds)
                 ELSE DigitsValue(0, ds)>>

CD == <<"c", "d">>
EXIT == <<"e", "x", "i", "t">>

\* What execute_command does, as a record: the error it returns, the
\* environment and the working directory after it, its Status, the code
\* handed to process::exit (an Option), and the expanded commands of the
\* children it forks.  `st` is the Status the wait loop of execute returns.
Outcome(err, e, c, st, exit, spawned) ==
    [err |-> err, env |-> e, cwd |-> c, status |-> st, exit |-> exit,
     spawned |-> spawned]

RECURSIVE AssignAll(_, _, _)
AssignAll(db, e, pairs) ==
    IF pairs = <<>> THEN e
    ELSE AssignAll(db, assign(db, e, Head(pairs)).env, Tail(pairs))

\* Interpreter::execute_command after `command.expand(&self.env)`: x is
\* the Result of the expansion.
execute_expanded(x, e, c, st) ==
    IF x.err # NoError THEN Outcome(x.err, e, c, "Failure", <<>>, <<>>)
    ELSE IF x.cmd.name = CD
         THEN IF x.cmd.pipeline # <<>>
                 THEN \* unimplemented!("builtin pipelines")
                      Outcome(Panic, e, c, "Failure", <<>>, <<>>)
                 ELSE LET r == cd(c, home(e), x.cmd.arguments) IN
                      Outcome(NoError, e, r.cwd, r.status, <<>>, <<>>)
    ELSE IF x.cmd.name = EXIT
         THEN IF Len(x.cmd.arguments) > 1
                 THEN Outcome(NoError, e, c, "Failure", <<>>, <<>>)
                 ELSE LET code ==
                            IF x.cmd.arguments = <<>> THEN 0
                            ELSE LET n == parse_i32(x.cmd.arguments[1]) IN
                                 IF n # <<>> THEN n[1] ELSE 2
                      IN Outcome(NoError, e, c, "Success", <<code>>, <<>>)
    ELSE Outcome(NoError, e, c, st, <<>>, Chain(x.cmd))

execute_command_assigning(db, e, c, command, st) ==
    LET x == command_expand(db, e, command) IN
    IF x.err # NoError THEN Outcome(x.err, e, c, "Failure", <<>>, <<>>)
    ELSE Outcome(NoError, AssignAll(db, e, command.env), c, st, <<>>,
                 Chain(x.cmd))

\* Interpreter::execute_command: the command is expanded once, then run
execute_command(db, e, c, command, st) ==
    execute_expanded(command_expand(db, e, command), e, c, st)

(***************************************************************************)
(* lexer.rs                                                                *)
(***************************************************************************)
\* Lexer::new; `panic` records a failed assert!(self.peek.is_none())
Lexer(src) ==
    [src |-> src, line |-> 1, peek |-> <<>>, next |-> <<>>, last |-> <<>>,
     panic |-> FALSE]

\* enum Kind; v holds the Word or the Redirect
KWord(w) == [k |-> "Word", v |-> w]
KRedirect(r) == [k |-> "Redirect", v |-> r]
KLeftBrace == [k |-> "LeftBrace", v |-> <<>>]
KRightBrace == [k |-> "RightBrace", v |-> <<>>]
KPipe == [k |-> "Pipe", v |-> <<>>]
KSemi == [k |-> "Semi", v |-> <<>>]

\* Token::new
Token(kind, line) == [kind |-> kind, line |-> line]
NoToken == Token([k |-> "None", v |-> <<>>], 0)

\* enum WriteMode and enum Redirect<Word> (redirect.rs); path is an Option
Truncate == "Truncate"
AppendMode == "Append"
NoMode == "None"
InFile(path) == [kind |-> "InFile", path |-> <<path>>, mode |-> NoMode]
OutErr == [kind |-> "OutErr", path |-> <<>>, mode |-> NoMode]
OutFile(path, mode) == [kind |-> "OutFile", path |-> <<path>>, mode |-> mode]
ErrOut == [kind |-> "ErrOut", path |-> <<>>, mode |-> NoMode]
ErrFile(path, mode) == [kind |-> "ErrFile", path |-> <<path>>, mode |-> mode]

\* enum Stream, enum WritableStream, enum Location
Stdin == "stdin"
Stdout == "stdout"
Stderr == "stderr"
is_writable(fd) == fd # Stdin
LocationPath(w) == [t |-> "Path", word |-> w, stream |-> ""]
LocationStream(st) == [t |-> "Stream", word |-> Unquoted(<<>>), stream |-> st]

\* What Lexer::next returns, with the lexer after the call: tag is "Some"
\* for Some(Ok(token)), "Err" for Some(Err(e)), "None" for None, and "Panic"
\* when the call panics.
Yielded(lx, token) ==
    [lx |-> lx, tag |-> "Some", token |-> token, err |-> NoError]
Failed(lx, e) ==
    [lx |-> lx, tag |-> IF e = Panic THEN "Panic" ELSE "Err",
     token |-> NoToken, err |-> e]
Exhausted(lx) == [lx |-> lx, tag |-> "None", token |-> NoToken, err |-> NoError]

\* Lexer::emit; line is an Option
emit(lx, kind, line) ==
    Yielded([lx EXCEPT !.last = <<kind>>],
            Token(kind, IF line # <<>> THEN line[1] ELSE lx.line))

\* Lexer::next_byte: the byte (an Option) and the lexer after it
lexer_next_byte(lx) ==
    LET next == IF lx.peek # <<>> THEN lx.peek
                ELSE IF lx.src # <<>> THEN <<Head(lx.src)>>
                ELSE <<>>
    IN [byte |-> next,
        lx |-> [lx EXCEPT !.peek = <<>>,
                          !.src = IF lx.peek = <<>> /\ lx.src # <<>>
                                     THEN Tail(lx.src) ELSE lx.src,
                          !.line = IF next = <<"\n">> THEN @ + 1 ELSE @]]

\* Lexer::push_byte
lexer_push_byte(lx, byte) ==
    IF lx.peek # <<>> THEN [lx EXCEPT !.panic = TRUE]
    ELSE [lx EXCEPT !.peek = <<byte>>,
                    !.line = IF byte = "\n" THEN @ - 1 ELSE @]

\* fn is_line_terminator
is_line_terminator(byte) == byte = "\n" \/ byte = ";"

\* u8::is_ascii_whitespace
is_ascii_whitespace(byte) == byte \in {" ", "\t", "\n", "\f", "\r"}

\* Lexer::consume_line_terminators: the lexer after it
RECURSIVE consume_line_terminators(_)
consume_line_terminators(lx) ==
    LET n == lexer_next_byte(lx) IN
    IF n.byte = <<>> THEN n.lx
    ELSE IF ~is_line_terminator(n.byte[1])
         THEN lexer_push_byte(n.lx, n.byte[1])
         ELSE consume_line_terminators(n.lx)

MissingQuote == "missing closing quote"

\* quoted_loop that takes either quote byte as the closing quote
RECURSIVE quoted_loop_either(_, _, _, _)
quoted_loop_either(lx, quote, line, buf) ==
    LET n == lexer_next_byte(lx) IN
    IF n.byte = <<>> THEN Failed(n.lx, MissingQuote)
    ELSE IF n.byte[1] \in {"\"", "'"}
         THEN emit(n.lx,
                   KWord(Word(buf, IF quote = "\"" THEN QDouble ELSE QSingle)),
                   <<line>>)
         ELSE quoted_loop_either(n.lx, quote, line, Append(buf, n.byte[1]))

\* Lexer::consume_quoted_word, the while loop
RECURSIVE quoted_loop(_, _, _, _)
quoted_loop(lx, quote, line, buf) ==
    LET n == lexer_next_byte(lx) IN
    IF n.byte = <<>> THEN Failed(n.lx, MissingQuote)
    ELSE IF n.byte[1] = quote
         THEN emit(n.lx,
                   KWord(Word(buf, IF quote = "\"" THEN QDouble ELSE QSingle)),
                   <<line>>)
         ELSE quoted_loop(n.lx, quote, line, Append(buf, n.byte[1]))

\* Lexer::consume_quoted_word
consume_quoted_word(lx, quote) == quoted_loop(lx, quote, lx.line, <<>>)

\* should_insert_semi that never asks for a Semi
should_insert_semi_never(lx) == FALSE

\* should_insert_semi that is false only after a Semi
should_insert_semi_after_brace(lx) ==
    IF lx.last # <<>> THEN lx.last[1].k # "Semi" ELSE FALSE

\* Lexer::should_insert_semi
should_insert_semi(lx) ==
    IF lx.last # <<>>
       THEN lx.last[1].k # "LeftBrace" /\ lx.last[1].k # "Semi"
       ELSE FALSE

ExpectedLocation == "expected redirect location"
ExpectedStream == "expected 1 (stdout) or 2 (stderr)"
AppendToStream == "cannot open stream in append mode"
StdinToStream == "cannot redirect stdin to stream"
StdoutToItself == "cannot redirect stdout to itself"
StderrToItself == "cannot redirect stderr to itself"

\* Result<Location> with the lexer after it
Located(lx, location) == [lx |-> lx, err |-> NoError, location |-> location]
NotLocated(lx, e) ==
    [lx |-> lx, err |-> e, location |-> LocationStream("")]

\* consume_redirect_location, the arm Some(b'&'): n is the next byte
stream_location(n) ==
    IF n.byte = <<"1">> THEN Located(n.lx, LocationStream(Stdout))
    ELSE IF n.byte = <<"2">> THEN Located(n.lx, LocationStream(Stderr))
    ELSE NotLocated(n.lx, ExpectedStream)

\* consume_redirect_location, the arm Some(other): t is what
\* self.next() returned; .expect("expected token") panics on None
path_location(t) ==
    IF t.tag = "None" \/ t.tag = "Panic" THEN NotLocated(t.lx, Panic)
    ELSE IF t.tag = "Err" THEN NotLocated(t.lx, t.err)
    ELSE IF t.token.kind.k = "Word"
         THEN Located(t.lx, LocationPath(t.token.kind.v))
         ELSE NotLocated(t.lx, ExpectedLocation)

RECURSIVE lexer_next(_)

\* Lexer::consume_redirect_location
consume_redirect_location(lx) ==
    LET n == lexer_next_byte(lx) IN
    IF n.byte = <<>> THEN NotLocated(n.lx, ExpectedLocation)
    ELSE IF n.byte[1] = "&" THEN stream_location(lexer_next_byte(n.lx))
    ELSE path_location(lexer_next(lexer_push_byte(n.lx, n.byte[1])))

\* consume_redirect, the write mode: the mode and the lexer after it
write_mode(lx, fd) ==
    LET n == lexer_next_byte(lx) IN
    IF ~is_writable(fd) THEN [lx |-> lx, mode |-> Truncate]
    ELSE IF n.byte = <<>> THEN [lx |-> n.lx, mode |-> Truncate]
    ELSE IF n.byte[1] = ">" THEN [lx |-> n.lx, mode |-> AppendMode]
    ELSE [lx |-> lexer_push_byte(n.lx, n.byte[1]), mode |-> Truncate]

\* Result<(Redirect<Word>, usize)> with the lexer after it
Redirected(lx, redirect, line) ==
    [lx |-> lx, err |-> NoError, redirect |-> redirect, line |-> line]
NotRedirected(lx, e) ==
    [lx |-> lx, err |-> e, redirect |-> OutErr, line |-> 0]

\* consume_redirect once the location is consumed
redirect_to(fd, line, mode, l) ==
    IF l.err # NoError THEN NotRedirected(l.lx, l.err)
    ELSE IF l.location.t = "Stream" /\ mode = AppendMode
         THEN NotRedirected(l.lx, AppendToStream)
    ELSE IF fd = Stdin
         THEN IF l.location.t = "Path"
                 THEN Redirected(l.lx, InFile(l.location.word), line)
                 ELSE NotRedirected(l.lx, StdinToStream)
    ELSE IF fd = Stdout
         THEN IF l.location.t = "Path"
                 THEN Redirected(l.lx, OutFile(l.location.word, mode), line)
                 ELSE IF l.location.stream = Stdout
                      THEN NotRedirected(l.lx, StdoutToItself)
                      ELSE Redirected(l.lx, OutErr, line)
    ELSE IF l.location.t = "Path"
         THEN Redirected(l.lx, ErrFile(l.location.word, mode), line)
         ELSE IF l.location.stream = Stdout
              THEN Redirected(l.lx, ErrOut, line)
              ELSE NotRedirected(l.lx, StderrToItself)

\* Lexer::consume_redirect
consume_redirect(lx, fd) ==
    redirect_to(fd, lx.line, write_mode(lx, fd).mode,
                consume_redirect_location(write_mode(lx, fd).lx))

\* Lexer::next, the match on the Result of consume_redirect
redirect_token(r) ==
    IF r.err # NoError THEN Failed(r.lx, r.err)
    ELSE emit(r.lx, KRedirect(r.redirect), <<r.line>>)

\* after_loop without the trailing Semi
after_loop_no_trailing_semi(lx, buf) ==
    IF buf = <<>> THEN Exhausted(lx)
    ELSE emit(lx, KWord(Unquoted(buf)), <<>>)

\* Lexer::next after the while loop
after_loop(lx, buf) ==
    IF buf = <<>>
       THEN IF lx.last = <<>> THEN Exhausted(lx)
            ELSE IF lx.last[1].k = "Semi" THEN Exhausted(lx)
            ELSE emit(lx, KSemi, <<>>)
       ELSE emit(lx, KWord(Unquoted(buf)), <<>>)

\* Lexer::next, a line terminator with an empty buf: lx is the lexer after
\* consume_line_terminators, line the line before it
terminators(lx, line) ==
    IF lx.last = <<>> THEN lexer_next(lx) ELSE emit(lx, KSemi, <<line - 1>>)

RECURSIVE lex_loop(_, _)

\* Lexer::next, the arms fd @ b'0' and fd @ b'1' | fd @ b'2': n is the
\* byte after fd
fd_byte(n, fd) ==
    IF n.byte = <<>> THEN after_loop(n.lx, <<fd>>)
    ELSE IF n.byte[1] = (IF fd = "0" THEN "<" ELSE ">")
         THEN redirect_token(
                  consume_redirect(n.lx, IF fd = "0" THEN Stdin
                                         ELSE IF fd = "1" THEN Stdout
                                         ELSE Stderr))
         ELSE lex_loop(lexer_push_byte(n.lx, n.byte[1]), <<fd>>)

\* Lexer::next, the body of the while loop from `if is_line_terminator`
plain_byte(lx, buf, byte) ==
    IF is_line_terminator(byte)
       THEN IF buf = <<>>
               THEN terminators(consume_line_terminators(lx), lx.line)
               ELSE after_loop(lexer_push_byte(lx, byte), buf)
    ELSE IF is_ascii_whitespace(byte)
         THEN IF buf = <<>> THEN lex_loop(lx, buf) ELSE after_loop(lx, buf)
    ELSE lex_loop(lx, Append(buf, byte))

\* Lexer::next, the body of the while loop for one byte
loop_byte(lx, buf, byte) ==
    IF buf # <<>> THEN plain_byte(lx, buf, byte)
    ELSE IF byte = "\"" \/ byte = "'" THEN consume_quoted_word(lx, byte)
    ELSE IF byte = "{"
         THEN emit(consume_line_terminators(lx), KLeftBrace, <<lx.line>>)
    ELSE IF byte = "}"
         THEN IF should_insert_semi(lx)
                 THEN emit([lx EXCEPT !.next = <<KRightBrace>>], KSemi, <<>>)
                 ELSE emit(lx, KRightBrace, <<>>)
    ELSE IF byte = "|" THEN emit(lx, KPipe, <<>>)
    ELSE IF byte = ">" THEN redirect_token(consume_redirect(lx, Stdout))
    ELSE IF byte = "<" THEN redirect_token(consume_redirect(lx, Stdin))
    ELSE IF byte \in {"0", "1", "2"} THEN fd_byte(lexer_next_byte(lx), byte)
    ELSE plain_byte(lx, buf, byte)

\* Lexer::next, the while loop
lex_loop(lx, buf) ==
    LET n == lexer_next_byte(lx) IN
    IF n.byte = <<>> THEN after_loop(n.lx, buf)
    ELSE loop_byte(n.lx, buf, n.byte[1])

\* Lexer::next
lexer_next(lx) ==
    IF lx.next # <<>>
       THEN emit([lx EXCEPT !.next = <<>>], lx.next[1], <<>>)
       ELSE lex_loop(lx, <<>>)

(***************************************************************************)
(* parser.rs: a recursive-descent parser over the tokens of the lexer      *)
(***************************************************************************)
\* struct Parser, Parser::new. Beside lexer and peek the record keeps what
\* the parser did with the tokens: taken, the tokens Lexer::next returned
\* so far; stmts, for each statement parse_stmt returned, the index of the
\* last token it consumed; semis, the indexes of the Semi tokens consumed
\* by the assert_token of Parser::parse and parse_block.
Parser(src) ==
    [lexer |-> Lexer(src), peek |-> <<>>, taken |-> <<>>,
     stmts |-> {}, semis |-> {}]

\* the index of the last token the parser consumed
Pos(p) == Len(p.taken) - Len(p.peek)

\* Result<T> with the parser after the call; found is the Option<Token>
\* the expected! macro names in its message
POk(p, v) == [p |-> p, err |-> NoError, val |-> v, found |-> <<>>]
PErr(p, e, found) == [p |-> p, err |-> e, val |-> <<>>, found |-> found]
PFail(r) == PErr(r.p, r.err, r.found)

ExpectedSemi == "expected ;"
ExpectedLeftBrace == "expected {"
ExpectedStatement == "expected statement"
ExpectedCommand == "expected command"
UnexpectedEOF == "unexpected EOF parsing block"
NotAValidName == "not a valid name"
ExpectedExport == "expected at least one name or name value pair after export"

\* the message of expected!(expected, found) for a Kind
ExpectedKind(kind) ==
    IF kind.k = "Semi" THEN ExpectedSemi ELSE ExpectedLeftBrace

\* Kind: PartialEq
KindEq(a, b) == a.k = b.k /\ a.v = b.v

\* ast.rs
StmtIf(stmt) == [t |-> "If", v |-> stmt]
StmtWhile(stmt) == [t |-> "While", v |-> stmt]
StmtExport(exportables) == [t |-> "Export", v |-> exportables]
StmtAssignment(pairs) == [t |-> "Assignment", v |-> pairs]
StmtCommand(command) == [t |-> "Command", v |-> command]
IfStmt(test, consequent, alternate) ==
    [test |-> test, consequent |-> consequent, alternate |-> alternate]
WhileStmt(test, body) == [test |-> test, body |-> body]

\* Command::from_name, Command::add_argument (command.rs)
from_name(name) == Command(name, <<>>, <<>>, <<>>, <<>>)
add_argument(command, argument) ==
    [command EXCEPT !.arguments = Append(@, argument)]

\* Parser::next_token, the arm None: r is what self.lexer.next() returned
taken_token(p, r) ==
    IF r.tag = "Panic" \/ r.lx.panic
       THEN PErr([p EXCEPT !.lexer = r.lx], Panic, <<>>)
    ELSE IF r.tag = "Err" THEN PErr([p EXCEPT !.lexer = r.lx], r.err, <<>>)
    ELSE IF r.tag = "None" THEN POk([p EXCEPT !.lexer = r.lx], <<>>)
    ELSE POk([p EXCEPT !.lexer = r.lx, !.taken = Append(@, r.token)],
             <<r.token>>)

\* Parser::next_token: Result<Option<Token>>
next_token(p) ==
    IF p.peek # <<>> THEN POk([p EXCEPT !.peek = <<>>], p.peek)
    ELSE taken_token(p, lexer_next(p.lexer))

\* Parser::push_token; peek is None wherever the parser calls it
push_token(p, token) == [p EXCEPT !.peek = <<token>>]

\* Parser::match_token, the match on next_token
matched_token(r, expected) ==
    IF r.err # NoError THEN PFail(r)
    ELSE IF r.val = <<>> THEN POk(r.p, FALSE)
    ELSE IF KindEq(r.val[1].kind, expected) THEN POk(r.p, TRUE)
    ELSE POk(push_token(r.p, r.val[1]), FALSE)

\* Parser::match_token: Result<bool>
match_token(p, expected) == matched_token(next_token(p), expected)

\* Parser::match_word, the match on next_token
matched_word(r) ==
    IF r.err # NoError THEN PFail(r)
    ELSE IF r.val = <<>> THEN POk(r.p, <<>>)
    ELSE IF r.val[1].kind.k = "Word" THEN POk(r.p, <<r.val[1].kind.v>>)
    ELSE POk(push_token(r.p, r.val[1]), <<>>)

\* Parser::match_word: Result<Option<Word>>
match_word(p) == matched_word(next_token(p))

\* asserted_token that leaves a token of another kind for the next call
asserted_token_lenient(r, expected) ==
    IF r.err # NoError THEN PFail(r)
    ELSE IF r.val = <<>> THEN POk(r.p, TRUE)
    ELSE IF KindEq(r.val[1].kind, expected) THEN POk(r.p, TRUE)
    ELSE POk(push_token(r.p, r.val[1]), TRUE)

\* Parser::assert_token, the match on next_token
asserted_token(r, expected) ==
    IF r.err # NoError THEN PFail(r)
    ELSE IF r.val # <<>> /\ KindEq(r.val[1].kind, expected)
         THEN POk(r.p, TRUE)
         ELSE PErr(r.p, ExpectedKind(expected), r.val)

\* Parser::assert_token
assert_token(p, expected) == asserted_token(next_token(p), expected)

\* parse_stmt returned: its statement ends at the last token consumed
EndStmt(p) == [p EXCEPT !.stmts = @ \cup {Pos(p)}]

\* assert_token(&Kind::Semi) returned Ok after a statement
EndSemi(p) == [p EXCEPT !.semis = @ \cup {Pos(p)}]

RECURSIVE parse_command(_, _)
RECURSIVE command_arguments(_, _)

\* command_pipeline that parses the successor and does not link it
command_pipeline_unlinked(c, command) ==
    IF c.err # NoError THEN PFail(c) ELSE POk(c.p, command)

\* parse_command, set_pipeline: c is the parsed successor
command_pipeline(c, command) ==
    IF c.err # NoError THEN PFail(c)
    ELSE POk(c.p, [command EXCEPT !.pipeline = <<c.val>>])

\* parse_command, `if self.match_token(&Kind::Pipe)?`
command_pipe(m, command) ==
    IF m.err # NoError THEN PFail(m)
    ELSE IF m.val THEN command_pipeline(parse_command(m.p, <<>>), command)
    ELSE POk(m.p, command)

\* parse_command, `while let Some(argument) = self.match_word()?`
command_argument(m, command) ==
    IF m.err # NoError THEN PFail(m)
    ELSE IF m.val # <<>>
         THEN command_arguments(m.p, add_argument(command, m.val[1]))
         ELSE command_pipe(match_token(m.p, KPipe), command)

command_arguments(p, command) == command_argument(match_word(p), command)

\* parse_command, `assert_word(self.next_token()?, "command")?`
command_name(r) ==
    IF r.err # NoError THEN PFail(r)
    ELSE IF r.val = <<>> THEN PErr(r.p, ExpectedCommand, <<>>)
    ELSE IF r.val[1].kind.k # "Word" THEN PErr(r.p, ExpectedCommand, r.val)
    ELSE command_arguments(r.p, from_name(r.val[1].kind.v))

\* Parser::parse_command; name is an Option<Word>
parse_command(p, name) ==
    IF name # <<>> THEN command_arguments(p, from_name(name[1]))
    ELSE command_name(next_token(p))

RECURSIVE export_loop(_, _)

\* parse_export_stmt, the body of the while loop and what follows it
export_word(m, exports) ==
    IF m.err # NoError THEN PFail(m)
    ELSE IF m.val = <<>>
         THEN IF exports = <<>> THEN PErr(m.p, ExpectedExport, <<>>)
              ELSE POk(m.p, exports)
    ELSE IF parse_name_value_pair(m.val[1]) # <<>>
         THEN export_loop(m.p,
                  Append(exports,
                      Exportable(parse_name_value_pair(m.val[1])[1].name,
                          <<parse_name_value_pair(m.val[1])[1].value>>)))
    ELSE IF is_valid_name(m.val[1].value)
         THEN export_loop(m.p, Append(exports, Exportable(m.val[1], <<>>)))
    ELSE PErr(m.p, NotAValidName, <<>>)

export_loop(p, exports) == export_word(match_word(p), exports)

\* Parser::parse_export_stmt
parse_export_stmt(p) == export_loop(p, <<>>)

\* parse_assignment_or_command, set_env on the parsed command
command_stmt(c, pairs) ==
    IF c.err # NoError THEN PFail(c)
    ELSE POk(c.p, StmtCommand([c.val EXCEPT !.env = pairs]))

RECURSIVE assignment_loop(_, _)

\* assignment_word that does not hand the leading pairs to the command
assignment_word_without_env(m, pairs) ==
    IF m.err # NoError THEN PFail(m)
    ELSE IF m.val = <<>> THEN POk(m.p, StmtAssignment(pairs))
    ELSE IF parse_name_value_pair(m.val[1]) # <<>>
         THEN assignment_loop(m.p,
                  Append(pairs, parse_name_value_pair(m.val[1])[1]))
    ELSE command_stmt(parse_command(m.p, m.val), <<>>)

\* parse_assignment_or_command, the body of the while loop
assignment_word(m, pairs) ==
    IF m.err # NoError THEN PFail(m)
    ELSE IF m.val = <<>> THEN POk(m.p, StmtAssignment(pairs))
    ELSE IF parse_name_value_pair(m.val[1]) # <<>>
         THEN assignment_loop(m.p,
                  Append(pairs, parse_name_value_pair(m.val[1])[1]))
    ELSE command_stmt(parse_command(m.p, m.val), pairs)

assignment_loop(p, pairs) == assignment_word(match_word(p), pairs)

\* Parser::parse_assignment_or_command
parse_assignment_or_command(p, w) ==
    IF parse_name_value_pair(w) # <<>>
       THEN assignment_loop(p, parse_name_value_pair(w))
       ELSE command_stmt(parse_command(p, <<w>>), <<>>)

RECURSIVE parse_stmt(_, _)
RECURSIVE parse_block(_)
RECURSIVE parse_if_stmt(_)
RECURSIVE block_loop(_, _)

\* parse_block, `self.assert_token(&Kind::Semi)?` after a statement
block_end(a, block) ==
    IF a.err # NoError THEN PFail(a) ELSE block_loop(EndSemi(a.p), block)

\* parse_block, `block.push(self.parse_stmt(token)?)`
block_rest(s, block) ==
    IF s.err # NoError THEN PFail(s)
    ELSE block_end(assert_token(EndStmt(s.p), KSemi), Append(block, s.val))

\* parse_block, the body of the while loop and the bail! after it
block_first(r, block) ==
    IF r.err # NoError THEN PFail(r)
    ELSE IF r.val = <<>> THEN PErr(r.p, UnexpectedEOF, <<>>)
    ELSE IF r.val[1].kind.k = "RightBrace" THEN POk(r.p, block)
    ELSE block_rest(parse_stmt(r.p, r.val[1]), block)

block_loop(p, block) == block_first(next_token(p), block)

\* parse_block, `self.assert_token(&Kind::LeftBrace)?`
block_open(a) ==
    IF a.err # NoError THEN PFail(a) ELSE block_loop(a.p, <<>>)

\* Parser::parse_block
parse_block(p) == block_open(assert_token(p, KLeftBrace))

\* if_alternate that parses the alternate and leaves the If without it
if_alternate_absent(a, test, consequent) ==
    IF a.err # NoError THEN PFail(a)
    ELSE POk(a.p, IfStmt(test, consequent, <<>>))

\* parse_if_stmt, IfStmt::new with the alternate a, an Option<Block>
if_alternate(a, test, consequent) ==
    IF a.err # NoError THEN PFail(a)
    ELSE POk(a.p, IfStmt(test, consequent, <<a.val>>))

\* parse_if_stmt, `vec![Stmt::If(self.parse_if_stmt()?)]`: the nested If
\* is a statement of the alternate
nested_if(r) ==
    IF r.err # NoError THEN PFail(r)
    ELSE POk(EndStmt(r.p), <<StmtIf(r.val)>>)

\* parse_if_stmt, `if self.match_token(&Kind::Word("if".into()))?`
if_else_if(m, test, consequent) ==
    IF m.err # NoError THEN PFail(m)
    ELSE IF m.val
         THEN if_alternate(nested_if(parse_if_stmt(m.p)), test, consequent)
         ELSE if_alternate(parse_block(m.p), test, consequent)

\* parse_if_stmt, `if self.match_token(&Kind::Word("else".into()))?`
if_else(m, test, consequent) ==
    IF m.err # NoError THEN PFail(m)
    ELSE IF m.val
         THEN if_else_if(match_token(m.p, KWord(Unquoted(<<"i", "f">>))),
                         test, consequent)
         ELSE POk(m.p, IfStmt(test, consequent, <<>>))

\* parse_if_stmt, `let consequent = self.parse_block()?`
if_consequent(c, test) ==
    IF c.err # NoError THEN PFail(c)
    ELSE if_else(match_token(c.p,
                     KWord(Unquoted(<<"e", "l", "s", "e">>))),
                 test, c.val)

\* parse_if_stmt, `let test = self.parse_command(None)?`
if_test(t) ==
    IF t.err # NoError THEN PFail(t)
    ELSE if_consequent(parse_block(t.p), t.val)

\* Parser::parse_if_stmt
parse_if_stmt(p) == if_test(parse_command(p, <<>>))

\* parse_while_stmt, WhileStmt::new
while_body(b, test) ==
    IF b.err # NoError THEN PFail(b) ELSE POk(b.p, WhileStmt(test, b.val))

while_test(t) ==
    IF t.err # NoError THEN PFail(t)
    ELSE while_body(parse_block(t.p), t.val)

\* Parser::parse_while_stmt
parse_while_stmt(p) == while_test(parse_command(p, <<>>))

\* parse_stmt, the Stmt built from what the statement's parser returned
stmt_of(r, t) ==
    IF r.err # NoError THEN PFail(r) ELSE POk(r.p, [t |-> t, v |-> r.val])

\* Parser::parse_stmt
parse_stmt(p, token) ==
    IF token.kind.k # "Word" THEN PErr(p, ExpectedStatement, <<token>>)
    ELSE IF token.kind.v.value = <<"i", "f">>
         THEN stmt_of(parse_if_stmt(p), "If")
    ELSE IF token.kind.v.value = <<"w", "h", "i", "l", "e">>
         THEN stmt_of(parse_while_stmt(p), "While")
    ELSE IF token.kind.v.value = <<"e", "x", "p", "o", "r", "t">>
         THEN stmt_of(parse_export_stmt(p), "Export")
    ELSE parse_assignment_or_command(p, token.kind.v)

RECURSIVE parse_loop(_, _)

\* Parser::parse, `program.push(stmt)` after the Semi
parse_end(a, program) ==
    IF a.err # NoError THEN PFail(a) ELSE parse_loop(EndSemi(a.p), program)

\* Parser::parse, `self.assert_token(&Kind::Semi)?` after the statement
parse_rest(s, program) ==
    IF s.err # NoError THEN PFail(s)
    ELSE parse_end(assert_token(EndStmt(s.p), KSemi), Append(program, s.val))

\* Parser::parse, the body of the while loop
parse_first(r, program) ==
    IF r.err # NoError THEN PFail(r)
    ELSE IF r.val = <<>> THEN POk(r.p, program)
    ELSE parse_rest(parse_stmt(r.p, r.val[1]), program)

parse_loop(p, program) == parse_first(next_token(p), program)

\* fn parse: Parser::new(input).parse()
parse(src) == parse_loop(Parser(src), <<>>)

\* parse has not been called
NoParse ==
    [done |-> FALSE, err |-> NoError, program |-> <<>>, found |-> <<>>,
     taken |-> <<>>, stmts |-> {}, semis |-> {}]

\* what parse returned: a Program or an error, and what the parser did
Parsed(r) ==
    [done |-> TRUE, err |-> r.err, program |-> r.val, found |-> r.found,
     taken |-> r.p.taken, stmts |-> r.p.stmts, semis |-> r.p.semis]

(***************************************************************************)
(* The inputs of the specifications of word.rs.                            *)
(***************************************************************************)
\* all byte strings over `alphabet` of length at most n
BytesUpTo(alphabet, n) ==
    UNION {[1..k -> alphabet] : k \in 0..n}

VarA == <<"A">>

\* Values HOME has and values the variable A has (when set): plain bytes,
\* a value that itself holds a reference, a value that starts with `~`.
HomeValues == {<<"/", "h">>, <<"~">>, <<"$", "A">>}
AValues == {<<"b">>, <<"$", "A">>, <<"~">>}

\* The environments the words are expanded in: HOME is always set, A is
\* set or unset.
Envs ==
    {(HOME :> Var(h, TRUE)) : h \in HomeValues}
    \cup {(HOME :> Var(h, TRUE)) @@ (VarA :> Var(a, TRUE)) :
              h \in HomeValues, a \in AValues}

\* The password database: the user A exists, every other user does not.
Passwds == {(VarA :> <<"/", "u">>), (VarA :> <<"~", "u">>)}

NoResult ==
    [op |-> "none", err |-> NoError, value |-> <<>>, tilde |-> <<>>,
     pair |-> <<>>]

\* No word operation is under way.
IdleWord ==
    /\ env = (HOME :> Var(<<"/", "h">>, TRUE))
    /\ passwd = (VarA :> <<"/", "u">>)
    /\ word = Unquoted(<<>>)
    /\ wresult = NoResult

\* The interpreter has executed no statement.
NoOp == [op |-> "none", stmt |-> <<>>, err |-> NoError, status |-> "Success"]

IdleInterp ==
    /\ cwd = [path |-> <<"/">>, last |-> <<>>]
    /\ shell = "running"
    /\ exitCode = 0
    /\ childEnvs = <<>>
    /\ lastOp = NoOp
    /\ everExported = {}

\* The shell is not inside execute.
IdleExec ==
    /\ pc = "idle"
    /\ ncmds = 0
    /\ forked = 0
    /\ child = [p \in 1..MaxPipeline |-> "unborn"]
    /\ outcome = [p \in 1..MaxPipeline |-> [kind |-> "None", code |-> 0]]
    /\ pids = {}
    /\ last_pid = 0
    /\ status = "Success"
    /\ mask = {}
    /\ mask0 = {}
    /\ pending = {}
    /\ removed = [p \in 1..MaxPipeline |-> 0]
    /\ interrupts = 0

\* No input is being tokenized.
IdleLex ==
    /\ script = <<>>
    /\ lexer = Lexer(<<>>)
    /\ tokens = <<>>
    /\ lexStatus = "idle"
    /\ parsed = NoParse

\* Interpreter::execute has not been called.
IdleRun ==
    /\ ast = <<>>
    /\ frames = <<>>
    /\ trace = <<>>
    /\ returned = <<>>

\* spawn_children has not been called.
IdleSpawn ==
    /\ cmds = <<>>
    /\ host = <<>>
    /\ spawner = <<>>
    /\ kids = <<>>

\* repl has not been called.
IdleRepl ==
    /\ typed = <<>>
    /\ repl = <<>>

\* The bytes the expanded words are made of.
ExpandAlphabet == {"~", "$", "{", "}", "/", "A", "1"}

InitExpand ==
    /\ IdleExec
    /\ IdleLex
    /\ IdleInterp
    /\ IdleRun
    /\ IdleSpawn
    /\ IdleRepl
    /\ env \in Envs
    /\ passwd \in Passwds
    /\ word \in {Word(b, q) : b \in BytesUpTo(ExpandAlphabet, MaxWordLen),
                              q \in Quotes}
    /\ wresult = NoResult

\* word.expand(&env)
DoExpand ==
    /\ wresult.op = "none"
    /\ LET r == expand(passwd, env, word) IN
       wresult' = [op |-> "expand", err |-> r.err, value |-> r.value,
                   \* the `word` of Word::expand's unquoted arm
                   tilde |-> IF word.quote = QNone
                                THEN <<expand_tilde(passwd, word.value,
                                                    home(env))>>
                                ELSE <<>>,
                   pair |-> <<>>]
    /\ UNCHANGED <<env, passwd, word>>
    /\ UNCHANGED outsideWord

NextExpand == DoExpand

SpecExpand == InitExpand /\ [][NextExpand]_vars

\* The bytes the words parsed as name/value pairs are made of.
PairAlphabet == {"A", "1", "=", "'", "\"", "$"}

InitPair ==
    /\ IdleExec
    /\ IdleLex
    /\ IdleInterp
    /\ IdleRun
    /\ IdleSpawn
    /\ IdleRepl
    /\ env = (HOME :> Var(<<"/", "h">>, TRUE))
    /\ passwd = (VarA :> <<"/", "u">>)
    /\ word \in {Word(b, q) : b \in BytesUpTo(PairAlphabet, MaxWordLen),
                              q \in Quotes}
    /\ wresult = NoResult

\* word.parse_name_value_pair()
DoParsePair ==
    /\ wresult.op = "none"
    /\ wresult' = [op |-> "pair", err |-> NoError, value |-> <<>>,
                   tilde |-> <<>>, pair |-> parse_name_value_pair(word)]
    /\ UNCHANGED <<env, passwd, word>>
    /\ UNCHANGED outsideWord

NextPair == DoParsePair

SpecPair == InitPair /\ [][NextPair]_vars

(***************************************************************************)
(* The interpreter's statements over the environment: Stmt::Assignment,    *)
(* Stmt::Export and Stmt::Command of Interpreter::execute.                 *)
(***************************************************************************)
VarB == <<"B">>
StmtNames == {VarA, VarB}

\* the value words of assignments and exports: plain, a reference, a
\* Single-quoted reference, an unterminated `${`
StmtValues ==
    {Unquoted(<<"1">>), Unquoted(<<"$", "A">>), Word(<<"$", "A">>, QSingle),
     Unquoted(<<"$", "{">>)}

StmtPairs ==
    {NameValuePair(Unquoted(n), v) : n \in StmtNames, v \in StmtValues}

StmtExportables ==
    {Exportable(Unquoted(n), <<>>) : n \in StmtNames}
    \cup {Exportable(Unquoted(n), <<v>>) : n \in StmtNames, v \in StmtValues}

LS == <<"l", "s">>
PairA1 == NameValuePair(Unquoted(VarA), Unquoted(<<"1">>))
PairBRef == NameValuePair(Unquoted(VarB), Unquoted(<<"$", "A">>))
PairHome == NameValuePair(Unquoted(HOME), Unquoted(<<"1">>))

\* the commands executed: `A=1 ls`, `A=1 B=$A ls $A`, `A=1 ls ${`,
\* `HOME=1 ls | B=$A ls`, `HOME=1 cd`, `cd -`, `A=1 exit 1`, `A=1 exit 1 1`
StmtCommands ==
    {Command(Unquoted(LS), <<>>, <<>>, <<PairA1>>, <<>>),
     Command(Unquoted(LS), <<Unquoted(<<"$", "A">>)>>, <<>>,
             <<PairA1, PairBRef>>, <<>>),
     Command(Unquoted(LS), <<Unquoted(<<"$", "{">>)>>, <<>>, <<PairA1>>,
             <<>>),
     Command(Unquoted(LS), <<>>, <<>>, <<PairHome>>,
             <<Command(Unquoted(LS), <<>>, <<>>, <<PairBRef>>, <<>>)>>),
     Command(Unquoted(CD), <<>>, <<>>, <<PairHome>>, <<>>),
     Command(Unquoted(CD), <<Unquoted(<<"-">>)>>, <<>>, <<>>, <<>>),
     Command(Unquoted(EXIT), <<Unquoted(<<"1">>)>>, <<>>, <<PairA1>>, <<>>),
     Command(Unquoted(EXIT), <<Unquoted(<<"1">>), Unquoted(<<"1">>)>>, <<>>,
             <<PairA1>>, <<>>)}

\* the orders in which a HashMap can yield the names of S
Orders(S) ==
    {o \in [1..Cardinality(S) -> S] :
        \A i, j \in 1..Cardinality(S) : o[i] = o[j] => i = j}

\* Environment::new: every variable of the host is marked exported
HostEnvs ==
    {(HOME :> Var(<<"/", "h">>, TRUE)),
     (HOME :> Var(<<"/", "h">>, TRUE)) @@ (VarA :> Var(<<"b">>, TRUE))}

InitEnv ==
    /\ IdleExec
    /\ IdleLex
    /\ IdleRun
    /\ IdleSpawn
    /\ IdleRepl
    /\ env \in HostEnvs
    /\ passwd = (VarA :> <<"/", "u">>)
    /\ word = Unquoted(<<>>)
    /\ wresult = NoResult
    /\ cwd = [path |-> <<"/">>, last |-> <<>>]
    /\ shell = "running"
    /\ exitCode = 0
    /\ childEnvs = <<>>
    /\ lastOp = NoOp
    /\ everExported = DOMAIN env

\* Stmt::Assignment: self.env.assign(pair)
AssignStmt ==
    /\ shell = "running"
    /\ \E pair \in StmtPairs :
        \E r \in {assign(passwd, env, pair)} :
        /\ env' = r.env
        /\ lastOp' = [op |-> "assign", stmt |-> pair, err |-> r.err,
                      status |-> "Success"]
    /\ childEnvs' = <<>>
    /\ UNCHANGED <<passwd, word, wresult, cwd, shell, exitCode, everExported>>
    /\ UNCHANGED outsideInterp

\* Stmt::Export: self.env.export(exportable)
ExportStmt ==
    /\ shell = "running"
    /\ \E exportable \in StmtExportables :
        \E r \in {export(passwd, env, exportable)} :
        /\ env' = r.env
        /\ lastOp' = [op |-> "export", stmt |-> exportable, err |-> r.err,
                      status |-> "Success"]
        /\ everExported' = IF r.err = NoError
                              THEN everExported \cup {exportable.name.value}
                              ELSE everExported
    /\ childEnvs' = <<>>
    /\ UNCHANGED <<passwd, word, wresult, cwd, shell, exitCode>>
    /\ UNCHANGED outsideInterp

\* Stmt::Command: self.execute_command(command).  When children are
\* forked, the wait loop returns either Status and the HashMap yields the
\* exported names in some order.
CommandStmt ==
    /\ shell = "running"
    /\ \E command \in StmtCommands :
        \E forks \in {execute_command(passwd, env, cwd, command,
                                      "Success").spawned # <<>>} :
        \E st \in IF forks THEN {"Success", "Failure"} ELSE {"Success"},
           order \in IF forks THEN Orders(iter_exported(env)) ELSE {<<>>} :
        \E r \in {execute_command(passwd, env, cwd, command, st)} :
            /\ env' = r.env
            /\ cwd' = r.cwd
            /\ shell' = IF r.exit # <<>> THEN "exited"
                        ELSE IF r.err = Panic THEN "panicked"
                        ELSE "running"
            /\ exitCode' = IF r.exit # <<>> THEN r.exit[1] ELSE exitCode
            /\ childEnvs' = [i \in 1..Len(r.spawned) |->
                                into_execv_env(env, r.spawned[i], order)]
            /\ lastOp' = [op |-> "command", stmt |-> command, err |-> r.err,
                          status |-> r.status]
    /\ UNCHANGED <<passwd, word, wresult, everExported>>
    /\ UNCHANGED outsideInterp

NextEnv ==
    \/ AssignStmt
    \/ ExportStmt
    \/ CommandStmt

SpecEnv == InitEnv /\ [][NextEnv]_vars

(***************************************************************************)
(* Interpreter::execute over a Block: the statements of the block in       *)
(* order, the blocks of If and While statements by recursive calls.  One   *)
(* frame is one activation of execute.                                     *)
(***************************************************************************)
\* a block is named by the path that leads to it from the block handed to
\* execute: at each level the index i of a statement and which block b of
\* that statement, [i, b]

\* one activation of execute(block): i is the index of the statement the
\* `for` loop is at, again is TRUE when that statement is a While whose
\* body has been evaluated
Frame(block, path, i, again) ==
    [block |-> block, path |-> path, i |-> i, again |-> again]

\* what execute did: e is "begin" (the statement i of the block at path is
\* matched), "test" (its test returned st), "enter" and "leave" (a call of
\* execute on the block at path, i is 0), "error" (the statement raised st)
Event(e, path, i, st) == [e |-> e, path |-> path, i |-> i, st |-> st]

Top == frames[Len(frames)]
AtStmt == frames # <<>> /\ Top.i <= Len(Top.block)
Current == Top.block[Top.i]

\* the `for` loop of execute moves to the next statement of the block
advance(fs) ==
    [fs EXCEPT ![Len(fs)] = Frame(fs[Len(fs)].block, fs[Len(fs)].path,
                                  fs[Len(fs)].i + 1, FALSE)]

\* an error leaves only the innermost activation
raise_innermost(fs) == SubSeq(fs, 1, Len(fs) - 1)

\* the `?` of every `self.execute(..)?` and `self.execute_command(..)?`:
\* an error returns from every activation of execute
raise(fs) == <<>>

\* Stmt::If: the block the If evaluates after its test returned st, as an
\* Option of [branch, block]
if_branch_swapped(stmt, st) ==
    IF st # "Success"
       THEN <<[branch |-> "consequent", block |-> stmt.consequent]>>
       ELSE IF stmt.alternate # <<>>
               THEN <<[branch |-> "alternate", block |-> stmt.alternate[1]]>>
               ELSE <<>>

if_branch(stmt, st) ==
    IF st = "Success"
       THEN <<[branch |-> "consequent", block |-> stmt.consequent]>>
       ELSE IF stmt.alternate # <<>>
               THEN <<[branch |-> "alternate", block |-> stmt.alternate[1]]>>
               ELSE <<>>

\* Stmt::While: the loop goes on while the test is_success
while_branch(stmt, st) ==
    IF st = "Success" THEN <<[branch |-> "body", block |-> stmt.body]>>
    ELSE <<>>

\* self.execute(block): the new activation, at the first statement of the
\* block b of the statement fs is at
activation(fs, b) ==
    Frame(b.block,
          fs[Len(fs)].path \o <<[i |-> fs[Len(fs)].i, b |-> b.branch]>>,
          1, FALSE)

\* Stmt::If: the activations once the test returned, b is if_branch
if_frames(fs, b) ==
    IF b = <<>> THEN advance(fs)
    ELSE Append(advance(fs), activation(fs, b[1]))

\* Stmt::While: the activations once the test returned, b is while_branch;
\* the `while` tests again when the body returns
while_frames(fs, b) ==
    IF b = <<>> THEN advance(fs)
    ELSE Append([fs EXCEPT ![Len(fs)].again = TRUE], activation(fs, b[1]))

\* the events of a block being entered, if one is
Entered(fs, b) ==
    IF b = <<>> THEN <<>>
    ELSE <<Event("enter", activation(fs, b[1]).path, 0, "")>>

\* the first error of the pairs of Stmt::Assignment, `self.env.assign(pair)?`
RECURSIVE assign_pairs(_, _, _)
assign_rest(db, r, rest) ==
    IF r.err # NoError THEN r ELSE assign_pairs(db, r.env, rest)
assign_pairs(db, e, pairs) ==
    IF pairs = <<>> THEN [env |-> e, err |-> NoError]
    ELSE assign_rest(db, assign(db, e, Head(pairs)), Tail(pairs))

\* the exportables of Stmt::Export, `self.env.export(exportable)?`
RECURSIVE export_all(_, _, _)
export_rest(db, r, rest) ==
    IF r.err # NoError THEN r ELSE export_all(db, r.env, rest)
export_all(db, e, exportables) ==
    IF exportables = <<>> THEN [env |-> e, err |-> NoError]
    ELSE export_rest(db, export(db, e, Head(exportables)), Tail(exportables))

\* a command of plain words without redirections and pairs
Cmd(name, arguments) ==
    Command(Unquoted(name),
            [i \in 1..Len(arguments) |-> Unquoted(arguments[i])],
            <<>>, <<>>, <<>>)

\* `head | successor`
Piped(head, successor) == [head EXCEPT !.pipeline = <<successor>>]

CmdT == Cmd(<<"t">>, <<>>)
CmdU == Cmd(<<"u">>, <<>>)
CmdA == Cmd(<<"a">>, <<>>)
CmdB == Cmd(<<"b">>, <<>>)
CmdC == Cmd(<<"c">>, <<>>)
\* `ls ${`, whose expansion fails
CmdBad == Cmd(LS, <<<<"$", "{">>>>)
PairBad == NameValuePair(Unquoted(VarA), Unquoted(<<"$", "{">>))

\* The programs executed.
\*   if t { a } else { b }; c          if t { a }; c
\*   if t { a } else if u { b } else { c }; a
\*   while t { a }; c                  while t { if u { a } else { b } }
\*   if t { while u { a } }; c
ControlPrograms ==
    <<<<StmtIf(IfStmt(CmdT, <<StmtCommand(CmdA)>>, <<<<StmtCommand(CmdB)>>>>)),
       StmtCommand(CmdC)>>,
     <<StmtIf(IfStmt(CmdT, <<StmtCommand(CmdA)>>, <<>>)), StmtCommand(CmdC)>>,
     <<StmtIf(IfStmt(CmdT, <<StmtCommand(CmdA)>>,
                     <<<<StmtIf(IfStmt(CmdU, <<StmtCommand(CmdB)>>,
                                       <<<<StmtCommand(CmdC)>>>>))>>>>)),
       StmtCommand(CmdA)>>,
     <<StmtWhile(WhileStmt(CmdT, <<StmtCommand(CmdA)>>)), StmtCommand(CmdC)>>,
     <<StmtWhile(WhileStmt(CmdT,
           <<StmtIf(IfStmt(CmdU, <<StmtCommand(CmdA)>>,
                           <<<<StmtCommand(CmdB)>>>>))>>))>>,
     <<StmtIf(IfStmt(CmdT,
           <<StmtWhile(WhileStmt(CmdU, <<StmtCommand(CmdA)>>))>>, <<>>)),
       StmtCommand(CmdC)>>>>

\* Programs with a statement that raises an error.
\*   if t { ls ${; a }; b              while t { A=${; a }; b
\*   if ls ${ { a } else { b }; c      while ls ${ { a }; c
\*   export A=${; a                    A=1 A=${ B=1; a
\*   while t { if u { export A B=${ }; a }; b
ErrorPrograms ==
    <<<<StmtIf(IfStmt(CmdT, <<StmtCommand(CmdBad), StmtCommand(CmdA)>>, <<>>)),
       StmtCommand(CmdB)>>,
     <<StmtWhile(WhileStmt(CmdT, <<StmtAssignment(<<PairBad>>),
                                   StmtCommand(CmdA)>>)),
       StmtCommand(CmdB)>>,
     <<StmtIf(IfStmt(CmdBad, <<StmtCommand(CmdA)>>,
                     <<<<StmtCommand(CmdB)>>>>)),
       StmtCommand(CmdC)>>,
     <<StmtWhile(WhileStmt(CmdBad, <<StmtCommand(CmdA)>>)),
       StmtCommand(CmdC)>>,
     <<StmtExport(<<Exportable(Unquoted(VarA), <<Unquoted(<<"$", "{">>)>>)>>),
       StmtCommand(CmdA)>>,
     <<StmtAssignment(<<PairA1, PairBad,
                        NameValuePair(Unquoted(VarB), Unquoted(<<"1">>))>>),
       StmtCommand(CmdA)>>,
     <<StmtWhile(WhileStmt(CmdT,
           <<StmtIf(IfStmt(CmdU,
                 <<StmtExport(<<Exportable(Unquoted(VarA), <<>>),
                                Exportable(Unquoted(VarB),
                                           <<Unquoted(<<"$", "{">>)>>)>>)>>,
                 <<>>)),
             StmtCommand(CmdA)>>)),
       StmtCommand(CmdB)>>>>

\* the files of the host that can be opened for reading
HostFiles == {<<"f">>}

\* Programs with a redirection from a file.
\*   c <m; a        c <f; a        a | c <m        c <m | a
RedirectPrograms ==
    <<<<StmtCommand(Command(Unquoted(<<"c">>), <<>>,
                            <<InFile(Unquoted(<<"m">>))>>, <<>>, <<>>)),
        StmtCommand(CmdA)>>,
      <<StmtCommand(Command(Unquoted(<<"c">>), <<>>,
                            <<InFile(Unquoted(<<"f">>))>>, <<>>, <<>>)),
        StmtCommand(CmdA)>>,
      <<StmtCommand(Piped(CmdA,
            Command(Unquoted(<<"c">>), <<>>,
                    <<InFile(Unquoted(<<"m">>))>>, <<>>, <<>>)))>>,
      <<StmtCommand(Command(Unquoted(<<"c">>), <<>>,
                            <<InFile(Unquoted(<<"m">>))>>, <<>>,
                            <<CmdA>>))>>>>

\* Programs with the built-in exit.
\*   exit; a       exit 12; a      exit x; a      exit 1x; a
\*   exit 1 1; a   if exit x x { a } else { b }
ExitPrograms ==
    <<<<StmtCommand(Cmd(EXIT, <<>>)), StmtCommand(CmdA)>>,
      <<StmtCommand(Cmd(EXIT, <<<<"1", "2">>>>)), StmtCommand(CmdA)>>,
      <<StmtCommand(Cmd(EXIT, <<<<"x">>>>)), StmtCommand(CmdA)>>,
      <<StmtCommand(Cmd(EXIT, <<<<"1", "x">>>>)), StmtCommand(CmdA)>>,
      <<StmtCommand(Cmd(EXIT, <<<<"1">>, <<"1">>>>)), StmtCommand(CmdA)>>,
      <<StmtIf(IfStmt(Cmd(EXIT, <<<<"x">>, <<"x">>>>),
                      <<StmtCommand(CmdA)>>, <<<<StmtCommand(CmdB)>>>>))>>>>

\* Programs with a built-in in a pipeline.
\*   cd /h | a; b     a | cd /h; b     a | exit; b     exit | a; b
\*   a | b | exit 1; c
PipedPrograms ==
    <<<<StmtCommand(Piped(Cmd(CD, <<<<"/", "h">>>>), CmdA)),
        StmtCommand(CmdB)>>,
      <<StmtCommand(Piped(CmdA, Cmd(CD, <<<<"/", "h">>>>))),
        StmtCommand(CmdB)>>,
      <<StmtCommand(Piped(CmdA, Cmd(EXIT, <<>>))), StmtCommand(CmdB)>>,
      <<StmtCommand(Piped(Cmd(EXIT, <<>>), CmdA)), StmtCommand(CmdB)>>,
      <<StmtCommand(Piped(CmdA, Piped(CmdB, Cmd(EXIT, <<<<"1">>>>)))),
        StmtCommand(CmdC)>>>>

\* Programs with the built-in cd.
\*   cd /h; cd /x; cd a b; cd -; cd -
\*   cd h/.; cd ..; cd; cd x; cd /h /; cd -
\*   cd -; cd /h/../h/; cd .; cd ../x/..
\*   while cd .. { cd h }
\*   cd -; cd -; cd h; cd -; cd -; cd -
\*   cd; cd /; cd x; cd -; if cd - { cd - }
CdPrograms ==
    <<<<StmtCommand(Cmd(CD, <<<<"/", "h">>>>)),
        StmtCommand(Cmd(CD, <<<<"/", "x">>>>)),
        StmtCommand(Cmd(CD, <<<<"a">>, <<"b">>>>)),
        StmtCommand(Cmd(CD, <<<<"-">>>>)),
        StmtCommand(Cmd(CD, <<<<"-">>>>))>>,
      <<StmtCommand(Cmd(CD, <<<<"h", "/", ".">>>>)),
        StmtCommand(Cmd(CD, <<<<".", ".">>>>)),
        StmtCommand(Cmd(CD, <<>>)),
        StmtCommand(Cmd(CD, <<<<"x">>>>)),
        StmtCommand(Cmd(CD, <<<<"/", "h">>, <<"/">>>>)),
        StmtCommand(Cmd(CD, <<<<"-">>>>))>>,
      <<StmtCommand(Cmd(CD, <<<<"-">>>>)),
        StmtCommand(Cmd(CD, <<<<"/", "h", "/", ".", ".", "/", "h", "/">>>>)),
        StmtCommand(Cmd(CD, <<<<".">>>>)),
        StmtCommand(Cmd(CD, <<<<".", ".", "/", "x", "/", ".", ".">>>>))>>,
      <<StmtWhile(WhileStmt(Cmd(CD, <<<<".", ".">>>>),
                            <<StmtCommand(Cmd(CD, <<<<"h">>>>))>>))>>,
      <<StmtCommand(Cmd(CD, <<<<"-">>>>)),
        StmtCommand(Cmd(CD, <<<<"-">>>>)),
        StmtCommand(Cmd(CD, <<<<"h">>>>)),
        StmtCommand(Cmd(CD, <<<<"-">>>>)),
        StmtCommand(Cmd(CD, <<<<"-">>>>)),
        StmtCommand(Cmd(CD, <<<<"-">>>>))>>,
      <<StmtCommand(Cmd(CD, <<>>)),
        StmtCommand(Cmd(CD, <<<<"/">>>>)),
        StmtCommand(Cmd(CD, <<<<"x">>>>)),
        StmtCommand(Cmd(CD, <<<<"-">>>>)),
        StmtIf(IfStmt(Cmd(CD, <<<<"-">>>>),
                      <<StmtCommand(Cmd(CD, <<<<"-">>>>))>>, <<>>))>>>>

\* Programs that change HOME.
\*   cd; cd /; cd            HOME=/; cd /h; cd
\*   export HOME=/; cd       HOME=/x; cd
HomePrograms ==
    <<<<StmtCommand(Cmd(CD, <<>>)), StmtCommand(Cmd(CD, <<<<"/">>>>)),
        StmtCommand(Cmd(CD, <<>>))>>,
      <<StmtAssignment(<<NameValuePair(Unquoted(HOME), Unquoted(<<"/">>))>>),
        StmtCommand(Cmd(CD, <<<<"/", "h">>>>)),
        StmtCommand(Cmd(CD, <<>>))>>,
      <<StmtExport(<<Exportable(Unquoted(HOME), <<Unquoted(<<"/">>)>>)>>),
        StmtCommand(Cmd(CD, <<>>))>>,
      <<StmtAssignment(<<NameValuePair(Unquoted(HOME),
                                       Unquoted(<<"/", "x">>))>>),
        StmtCommand(Cmd(CD, <<>>))>>>>

\* Programs with a word that cannot be expanded, after words that can.
\*   A=${ cd /h; a        exit | ls ${; a
\*   a | b | ls ${; c     a <${; b
ExpansionPrograms ==
    <<<<StmtCommand(Command(Unquoted(CD), <<Unquoted(<<"/", "h">>)>>, <<>>,
                            <<PairBad>>, <<>>)),
        StmtCommand(CmdA)>>,
      <<StmtCommand(Piped(Cmd(EXIT, <<>>), CmdBad)), StmtCommand(CmdA)>>,
      <<StmtCommand(Piped(CmdA, Piped(CmdB, CmdBad))), StmtCommand(CmdC)>>,
      <<StmtCommand(Command(Unquoted(<<"a">>), <<>>,
                            <<InFile(Unquoted(<<"$", "{">>))>>, <<>>, <<>>)),
        StmtCommand(CmdB)>>>>

\* a sequence: statements of different kinds are not compared
RunPrograms ==
    ControlPrograms \o ErrorPrograms \o RedirectPrograms \o ExitPrograms
    \o PipedPrograms \o CdPrograms \o HomePrograms \o ExpansionPrograms

InitRun ==
    /\ IdleSpawn
    /\ IdleRepl
    /\ IdleExec
    /\ IdleLex
    /\ env = (HOME :> Var(<<"/", "h">>, TRUE))
    /\ passwd = (VarA :> <<"/", "u">>)
    /\ word = Unquoted(<<>>)
    /\ wresult = NoResult
    /\ cwd = [path |-> <<"/">>, last |-> <<>>]
    /\ shell = "running"
    /\ exitCode = 0
    /\ childEnvs = <<>>
    /\ lastOp = NoOp
    /\ everExported = DOMAIN env
    /\ \E n \in 1..Len(RunPrograms) : ast = RunPrograms[n]
    /\ frames = <<Frame(ast, <<>>, 1, FALSE)>>
    /\ trace = <<>>
    /\ returned = <<>>

\* execute is at a statement
Executing ==
    /\ shell = "running"
    /\ returned = <<>>
    /\ Len(trace) < MaxTrace

\* execute_child: File::open of an InFile redirection succeeds, and so
\* does WriteMode::open of an OutFile or ErrFile redirection (O_CREAT
\* creates the file; what cannot be opened for writing is a directory)
opens(redirect) ==
    /\ redirect.kind = "InFile" => redirect.path \in HostFiles
    /\ redirect.kind \in {"OutFile", "ErrFile"} => redirect.path \notin Dirs

\* execute_child and the Child arm of spawn_children: a child that cannot
\* open a redirection prints the error and calls process::exit(1), any
\* other child ends as the program it executes does.  The Status values
\* the wait loop can return for the children spawned, the last child's.
child_statuses(spawned) ==
    IF \E i \in 1..Len(spawned[Len(spawned)].redirects) :
          ~opens(spawned[Len(spawned)].redirects[i])
       THEN {"Failure"}
       ELSE {"Success", "Failure"}

\* what execute_command can return for the command: one Outcome for each
\* Status the wait loop can return when children are forked
OutcomesOf(command) ==
    {r \in {execute_command(passwd, env, cwd, command, st) :
                st \in {"Success", "Failure"}} :
        r.spawned # <<>> => r.status \in child_statuses(r.spawned)}

\* self.execute_command(command), on the interpreter and the process;
\* order is the order in which the HashMap yields the exported names.
\* lastOp keeps the tracker the command found, `was`.
Executed(command, r, order) ==
    /\ env' = r.env
    /\ cwd' = r.cwd
    /\ shell' = IF r.exit # <<>> THEN "exited"
                ELSE IF r.err = Panic THEN "panicked"
                ELSE "running"
    /\ exitCode' = IF r.exit # <<>> THEN r.exit[1] ELSE exitCode
    /\ childEnvs' = [i \in 1..Len(r.spawned) |->
                        into_execv_env(env, r.spawned[i], order)]
    /\ lastOp' = [op |-> "command", stmt |-> command, err |-> r.err,
                  status |-> r.status, was |-> cwd]

\* Where execute goes on after a statement: the process is gone (halted),
\* the statement raised err, or the `for` loop goes on with the
\* activations fs.  begun are the events up to the outcome, went those of
\* going on.
Control(err, halted, begun, fs, went) ==
    IF halted
       THEN /\ trace' = trace \o begun
            /\ UNCHANGED <<frames, returned>>
    ELSE IF err # NoError
       THEN /\ trace' = trace \o begun
                               \o <<Event("error", Top.path, Top.i, err)>>
            /\ frames' = raise(frames)
            /\ returned' = IF raise(frames) = <<>> THEN <<err>> ELSE <<>>
    ELSE /\ trace' = trace \o begun \o went
         /\ frames' = fs
         /\ UNCHANGED returned

Begin == <<Event("begin", Top.path, Top.i, "")>>
Halted(r) == r.exit # <<>> \/ r.err = Panic

\* the command of the arms Stmt::If, Stmt::While and Stmt::Command
command_of(stmt) ==
    IF stmt.t = "Command" THEN stmt.v ELSE stmt.v.test

\* the block the statement evaluates after its command returned st
branch_of(stmt, st) ==
    IF stmt.t = "If" THEN if_branch(stmt.v, st)
    ELSE IF stmt.t = "While" THEN while_branch(stmt.v, st)
    ELSE <<>>

\* the activations after the command of the statement returned, b is
\* branch_of
stmt_frames(fs, stmt, b) ==
    IF stmt.t = "If" THEN if_frames(fs, b)
    ELSE IF stmt.t = "While" THEN while_frames(fs, b)
    ELSE advance(fs)

\* the Status of the command of Stmt::Command is dropped, that of a test
\* decides the branch
Tested(stmt, st) ==
    IF stmt.t = "Command" THEN <<>>
    ELSE <<Event("test", Top.path, Top.i, st)>>

\* Stmt::If, Stmt::While and Stmt::Command: the arms that call
\* self.execute_command, on the test or on the command; for a While one
\* evaluation of the condition of the `while`
RunCommand ==
    /\ Executing
    /\ AtStmt
    /\ Current.t \in {"If", "While", "Command"}
    /\ \E command \in {command_of(Current)} :
        \E r \in OutcomesOf(command) :
        \E order \in IF r.spawned # <<>> THEN Orders(iter_exported(env))
                      ELSE {<<>>},
           b \in {branch_of(Current, r.status)} :
        /\ Executed(command, r, order)
        /\ Control(r.err, Halted(r), IF Top.again THEN <<>> ELSE Begin,
                   stmt_frames(frames, Current, b),
                   Tested(Current, r.status) \o Entered(frames, b))
    /\ UNCHANGED <<passwd, word, wresult, everExported, ast>>
    /\ UNCHANGED outsideRun

\* Stmt::Export
RunExport ==
    /\ Executing
    /\ AtStmt
    /\ Current.t = "Export"
    /\ \E r \in {export_all(passwd, env, Current.v)} :
        /\ env' = r.env
        /\ lastOp' = [op |-> "export", stmt |-> Current.v, err |-> r.err,
                      status |-> "Success"]
        /\ everExported' =
              everExported \cup {n \in DOMAIN r.env : r.env[n].is_exported}
        /\ Control(r.err, FALSE, Begin, advance(frames), <<>>)
    /\ childEnvs' = <<>>
    /\ UNCHANGED <<passwd, word, wresult, cwd, shell, exitCode, ast>>
    /\ UNCHANGED outsideRun

\* Stmt::Assignment
RunAssignment ==
    /\ Executing
    /\ AtStmt
    /\ Current.t = "Assignment"
    /\ \E r \in {assign_pairs(passwd, env, Current.v)} :
        /\ env' = r.env
        /\ lastOp' = [op |-> "assign", stmt |-> Current.v, err |-> r.err,
                      status |-> "Success"]
        /\ Control(r.err, FALSE, Begin, advance(frames), <<>>)
    /\ childEnvs' = <<>>
    /\ UNCHANGED <<passwd, word, wresult, cwd, shell, exitCode,
                   everExported, ast>>
    /\ UNCHANGED outsideRun

\* the `for` loop of an activation is over: Ok(())
RunReturn ==
    /\ Executing
    /\ frames # <<>>
    /\ ~AtStmt
    /\ frames' = SubSeq(frames, 1, Len(frames) - 1)
    /\ trace' = Append(trace, Event("leave", Top.path, 0, ""))
    /\ returned' = IF Len(frames) = 1 THEN <<NoError>> ELSE <<>>
    /\ UNCHANGED <<ast, wordVars, interpVars>>
    /\ UNCHANGED outsideRun

\* main: the exit code of the process once the run has returned
RunMain ==
    /\ shell = "running"
    /\ returned # <<>>
    /\ shell' = "exited"
    /\ exitCode' = IF returned[1] = NoError THEN 0 ELSE 1
    /\ UNCHANGED <<cwd, childEnvs, lastOp, everExported>>
    /\ UNCHANGED <<wordVars, runVars>>
    /\ UNCHANGED outsideRun

NextRun ==
    \/ RunCommand
    \/ RunExport
    \/ RunAssignment
    \/ RunReturn
    \/ RunMain

SpecRun == InitRun /\ [][NextRun]_vars

(***************************************************************************)
(* spawn_children and execute_child: the pipes, the forks and the file     *)
(* descriptors of the shell and of its children.                           *)
(***************************************************************************)
\* libc::STDIN_FILENO, libc::STDOUT_FILENO, libc::STDERR_FILENO
STDIN_FILENO == 0
STDOUT_FILENO == 1
STDERR_FILENO == 2

\* What a file descriptor refers to: the terminal the shell was started
\* on, an end of the n-th pipe, or a file opened by a redirection.
Tty == [k |-> "tty", n |-> 0, p |-> <<>>, m |-> NoMode]
ReadEnd(n) == [k |-> "read", n |-> n, p |-> <<>>, m |-> NoMode]
WriteEnd(n) == [k |-> "write", n |-> n, p |-> <<>>, m |-> NoMode]
OpenFile(path, mode) == [k |-> "file", n |-> 0, p |-> path, m |-> mode]

\* The descriptor table of a process: open descriptor -> what it refers to.
\* The shell is started with the three standard streams on the terminal.
StdFds ==
    [fd \in {STDIN_FILENO, STDOUT_FILENO, STDERR_FILENO} |-> Tty]

\* the descriptor the kernel hands out next: the lowest one not open
lowest(fds) ==
    CHOOSE n \in 0..Cardinality(DOMAIN fds) :
        /\ n \notin DOMAIN fds
        /\ \A below \in 0..(n - 1) : below \in DOMAIN fds

\* descriptor fd is made to refer to d
install(fds, fd, d) ==
    [x \in (DOMAIN fds) \cup {fd} |-> IF x = fd THEN d ELSE fds[x]]

\* unistd::dup2(old, new) on an open old: new refers to what old refers to
dup2_swapped(fds, old, new) ==
    install(fds, old, fds[new])

dup2(fds, old, new) ==
    install(fds, new, fds[old])

\* unistd::close(fd), and the drop of a File
close_fd(fds, fd) ==
    [x \in (DOMAIN fds) \ {fd} |-> fds[x]]

\* unistd::pipe(): the read end and the write end of the n-th pipe on the
\* two lowest free descriptors
pipe(fds, n) ==
    LET read == lowest(fds)
        write == lowest(install(fds, read, ReadEnd(n)))
    IN [read |-> read, write |-> write,
        fds |-> install(install(fds, read, ReadEnd(n)), write, WriteEnd(n))]

\* closes the descriptor of an Option<RawFd>
close_some(fds, fd) ==
    IF fd = <<>> THEN fds ELSE close_fd(fds, fd[1])

\* File::open(path) and WriteMode::open(path) followed by dup2 onto the
\* standard descriptor std; the File is dropped at the end of the arm
open_onto(fds, path, mode, std) ==
    LET file == lowest(fds)
    IN close_fd(dup2(install(fds, file, OpenFile(path, mode)), file, std),
                file)

\* one arm of the `for redirect in &command.redirects` of execute_child
redirect_fds(fds, redirect) ==
    CASE redirect.kind = "InFile" ->
            open_onto(fds, redirect.path, "Read", STDIN_FILENO)
      [] redirect.kind = "OutErr" -> dup2(fds, STDERR_FILENO, STDOUT_FILENO)
      [] redirect.kind = "OutFile" ->
            open_onto(fds, redirect.path, redirect.mode, STDOUT_FILENO)
      [] redirect.kind = "ErrOut" -> dup2(fds, STDOUT_FILENO, STDERR_FILENO)
      [] redirect.kind = "ErrFile" ->
            open_onto(fds, redirect.path, redirect.mode, STDERR_FILENO)

\* the first two `if let Some(fd)` of execute_child
pipe_fds(fds, stdin, stdout) ==
    LET piped == IF stdin = <<>> THEN fds ELSE dup2(fds, stdin[1], STDIN_FILENO)
    IN IF stdout = <<>> THEN piped ELSE dup2(piped, stdout[1], STDOUT_FILENO)

\* what execve can answer for a candidate path
ExecOk == "Ok"
ENOENT == "ENOENT"
EACCES == "EACCES"
Errnos == {ExecOk, ENOENT, EACCES}

\* env::split_paths(environment.path()): the directories of PATH, in order
PathDirs == <<<<"/", "a">>, <<"/", "b">>, <<"/", "c">>>>

\* ExpandedCommand, as far as the child uses it
Spawned(name, redirects) == [name |-> name, redirects |-> redirects]
To(kind, path, mode) == [kind |-> kind, path |-> path, mode |-> mode]

\* The pipelines spawn_children is called with.
\*   a               a >f 2>&1       a 2>&1 >f | b    a | b <f
\*   a >f | b        a | b | c       a <m             /x | b >&2
\*   a 2>/           a 2>>g >&2 | b
SpawnPipelines ==
    <<<<Spawned(<<"a">>, <<>>)>>,
      <<Spawned(<<"a">>, <<To("OutFile", <<"f">>, Truncate),
                            To("ErrOut", <<>>, NoMode)>>)>>,
      <<Spawned(<<"a">>, <<To("ErrOut", <<>>, NoMode),
                           To("OutFile", <<"f">>, Truncate)>>),
        Spawned(<<"b">>, <<>>)>>,
      <<Spawned(<<"a">>, <<>>),
        Spawned(<<"b">>, <<To("InFile", <<"f">>, NoMode)>>)>>,
      <<Spawned(<<"a">>, <<To("OutFile", <<"f">>, Truncate)>>),
        Spawned(<<"b">>, <<>>)>>,
      <<Spawned(<<"a">>, <<>>), Spawned(<<"b">>, <<>>),
        Spawned(<<"c">>, <<>>)>>,
      <<Spawned(<<"a">>, <<To("InFile", <<"m">>, NoMode)>>)>>,
      <<Spawned(<<"/", "x">>, <<>>),
        Spawned(<<"b">>, <<To("OutErr", <<>>, NoMode)>>)>>,
      <<Spawned(<<"a">>, <<To("ErrFile", <<"/">>, Truncate)>>)>>,
      <<Spawned(<<"a">>, <<To("ErrFile", <<"g">>, AppendMode),
                            To("OutErr", <<>>, NoMode)>>),
        Spawned(<<"b">>, <<>>)>>>>

\* ExpandedCommand::into_execv: a name with a slash is tried as it is, any
\* other name in each directory of PATH; the candidates as the keys under
\* which the host answers
is_exact(name) == \E i \in 1..Len(name) : name[i] = "/"

candidates(name) ==
    IF is_exact(name) THEN <<0>> ELSE [i \in 1..Len(PathDirs) |-> i]

\* nix::unistd::execve of a candidate, as the host answers it
execve_answer(h, candidate) ==
    IF candidate = 0 THEN h.exact ELSE h.path[candidate]

\* a process: where it is, its descriptors, the pipe ends it was forked
\* with, the next redirect, the candidates tried, its exit code and what
\* it has printed
Kid(at, fds, stdin, stdout, todo, tried, code) ==
    [pc |-> at, fds |-> fds, stdin |-> stdin, stdout |-> stdout,
     todo |-> todo, tried |-> tried, code |-> code, printed |-> "nothing"]

Unborn == Kid("unborn", <<>>, <<>>, <<>>, 1, <<>>, 0)

\* process::exit(code): the descriptors of the process are closed
exited(kid, code) ==
    [kid EXCEPT !.pc = "exited", !.fds = <<>>, !.code = code]

\* the Child arm of spawn_children after execute_child returned:
\* print_error and process::exit(1)
child_arm_resumes(kid) ==
    [kid EXCEPT !.pc = "spawning", !.printed = "error"]

child_arm(kid) ==
    [exited(kid, 1) EXCEPT !.printed = "error"]

\* fn execve: Ok replaces the process image, ENOENT returns to the caller,
\* any other errno is displayed and the process exits with 1
execve_skipping(kid, answer, candidate) ==
    LET tried == [kid EXCEPT !.tried = Append(@, candidate)]
    IN IF answer = ExecOk THEN [tried EXCEPT !.pc = "program"] ELSE tried

execve(kid, answer, candidate) ==
    LET tried == [kid EXCEPT !.tried = Append(@, candidate)]
    IN CASE answer = ExecOk -> [tried EXCEPT !.pc = "program"]
         [] answer = ENOENT -> tried
         [] OTHER -> [exited(tried, 1) EXCEPT !.printed = "errno"]

\* the end of execute_child: display!("command not found") and exit(1)
not_found(kid) ==
    [exited(kid, 1) EXCEPT !.printed = "command not found"]

\* where the child goes when a redirect is done: the next one, or execv
after_redirect(kid, command) ==
    IF kid.todo > Len(command.redirects) THEN [kid EXCEPT !.pc = "execv"]
    ELSE [kid EXCEPT !.pc = "redirects"]

InitSpawn ==
    /\ IdleExec
    /\ IdleWord
    /\ IdleInterp
    /\ IdleLex
    /\ IdleRun
    /\ IdleRepl
    /\ \E n \in 1..Len(SpawnPipelines) : cmds = SpawnPipelines[n]
    /\ \E answers \in [1..Len(PathDirs) -> Errnos], exact \in Errnos :
        host = [path |-> answers, exact |-> exact]
    /\ spawner = [pc |-> "match", i |-> 1, fds |-> StdFds,
                  next_stdin |-> <<>>, stdin |-> <<>>, stdout |-> <<>>,
                  pids |-> {}, pipes |-> 0, last_pid |-> 0]
    /\ kids = [i \in 1..Len(cmds) |-> Unborn]

\* let (stdin, stdout) = match cmd.pipeline(): a command with a successor
\* gets a new pipe
SpawnPipe ==
    /\ spawner # <<>>
    /\ spawner.pc = "match"
    /\ IF spawner.i < Len(cmds)
          THEN \E p \in {pipe(spawner.fds, spawner.pipes + 1)} :
                 spawner' = [spawner EXCEPT !.pc = "fork",
                                !.fds = p.fds,
                                !.stdin = spawner.next_stdin,
                                !.next_stdin = <<p.read>>,
                                !.stdout = <<p.write>>,
                                !.pipes = @ + 1]
          ELSE spawner' = [spawner EXCEPT !.pc = "fork",
                              !.stdin = spawner.next_stdin,
                              !.stdout = <<>>]
    /\ UNCHANGED <<cmds, host, kids>>
    /\ UNCHANGED outsideSpawn

\* fork(): the child starts with a copy of the shell's descriptors
SpawnFork ==
    /\ spawner # <<>>
    /\ spawner.pc = "fork"
    /\ kids' = [kids EXCEPT ![spawner.i] =
                   Kid("pipes", spawner.fds, spawner.stdin, spawner.stdout,
                       1, <<>>, 0)]
    /\ spawner' = [spawner EXCEPT !.pc = "parent",
                                  !.pids = @ \cup {spawner.i}]
    /\ UNCHANGED <<cmds, host>>
    /\ UNCHANGED outsideSpawn

\* ForkResult::Parent: the child's pid is recorded, its two pipe ends are
\* closed, and after the last command the pid is returned
SpawnParent ==
    /\ spawner # <<>>
    /\ spawner.pc = "parent"
    /\ \E fds \in {close_some(close_some(spawner.fds, spawner.stdin),
                              spawner.stdout)} :
        spawner' =
            IF spawner.i = Len(cmds)
               THEN [spawner EXCEPT !.pc = "returned", !.fds = fds,
                                    !.last_pid = spawner.i]
               ELSE [spawner EXCEPT !.pc = "match", !.fds = fds,
                                    !.i = @ + 1]
    /\ UNCHANGED <<cmds, host, kids>>
    /\ UNCHANGED outsideSpawn

\* execute_child: the pipe ends are put on stdin and stdout; a dup2 that
\* fails makes execute_child return the error
ChildPipes ==
    \E i \in DOMAIN kids :
        /\ kids[i].pc = "pipes"
        /\ \E ok \in BOOLEAN :
            /\ ok \/ kids[i].stdin # <<>> \/ kids[i].stdout # <<>>
            /\ kids' = [kids EXCEPT ![i] =
                  IF ok
                     THEN after_redirect(
                            [kids[i] EXCEPT !.fds = pipe_fds(kids[i].fds,
                                kids[i].stdin, kids[i].stdout)], cmds[i])
                     ELSE [kids[i] EXCEPT !.pc = "returned"]]
        /\ UNCHANGED <<cmds, host, spawner>>
        /\ UNCHANGED outsideSpawn

\* execute_child: the next redirect of the command; a file that cannot be
\* opened makes execute_child return the error
ChildRedirect ==
    \E i \in DOMAIN kids :
        /\ kids[i].pc = "redirects"
        /\ \E redirect \in {cmds[i].redirects[kids[i].todo]} :
            kids' = [kids EXCEPT ![i] =
               IF opens(redirect)
                  THEN after_redirect(
                         [kids[i] EXCEPT !.fds = redirect_fds(kids[i].fds,
                                                              redirect),
                                         !.todo = @ + 1], cmds[i])
                  ELSE [kids[i] EXCEPT !.pc = "returned"]]
        /\ UNCHANGED <<cmds, host, spawner>>
        /\ UNCHANGED outsideSpawn

\* execute_child: the next candidate of into_execv is handed to execve;
\* with no candidate left the child ends as not_found says.
ChildExec ==
    \E i \in DOMAIN kids :
        /\ kids[i].pc = "execv"
        /\ LET paths == candidates(cmds[i].name)
               c == Len(kids[i].tried) + 1
           IN kids' = [kids EXCEPT ![i] =
                 IF c > Len(paths) THEN not_found(kids[i])
                 ELSE execve(kids[i], execve_answer(host, paths[c]),
                             paths[c])]
        /\ UNCHANGED <<cmds, host, spawner>>
        /\ UNCHANGED outsideSpawn

\* the Child arm of spawn_children once execute_child has returned
ChildArm ==
    \E i \in DOMAIN kids :
        /\ kids[i].pc = "returned"
        /\ kids' = [kids EXCEPT ![i] = child_arm(kids[i])]
        /\ UNCHANGED <<cmds, host, spawner>>
        /\ UNCHANGED outsideSpawn

\* the program the child has become ends; its descriptors are closed
ProgramEnds ==
    \E i \in DOMAIN kids :
        /\ kids[i].pc = "program"
        /\ \E code \in 0..MaxExitCode :
            kids' = [kids EXCEPT ![i] =
                        [kids[i] EXCEPT !.pc = "ended", !.fds = <<>>,
                                        !.code = code]]
        /\ UNCHANGED <<cmds, host, spawner>>
        /\ UNCHANGED outsideSpawn

NextSpawn ==
    \/ SpawnPipe
    \/ SpawnFork
    \/ SpawnParent
    \/ ChildPipes
    \/ ChildRedirect
    \/ ChildExec
    \/ ChildArm
    \/ ProgramEnds

SpecSpawn == InitSpawn /\ [][NextSpawn]_vars

(***************************************************************************)
(* main.rs: repl, DirStatus::cd, execute and main.                         *)
(***************************************************************************)
\* DirStatus::cd(self, argv): Ok(DirStatus) or the error of
\* env::set_current_dir; more than one argument fails the assert!
dir_cd(d, argv) ==
    IF Len(argv) > 1 THEN [err |-> Panic, dir |-> d]
    ELSE LET path == IF argv # <<>>
                        THEN IF argv[Len(argv)] = <<"-">>
                                THEN IF d.last # <<>> THEN d.last[1]
                                     ELSE d.path
                                ELSE argv[Len(argv)]
                        ELSE home_dir
         IN IF ~chdir_ok(d, path) THEN [err |-> ENOENT, dir |-> d]
            ELSE [err |-> NoError,
                  dir |-> [path |-> IF is_relative(path)
                                       THEN canonicalize(join(d.path,
                                                              path))[1]
                                       ELSE path,
                           last |-> <<d.path>>]]

\* fn execute(argv) of main.rs: Ok(()) once the child is waited for, or the
\* error of fork()
repl_execute(d) ==
    {[err |-> NoError, dir |-> d], [err |-> "EAGAIN", dir |-> d]}

\* the body of the `while let Some(line)` of repl for the argv parse_line
\* returned: what it leaves of the directory, and the error `?` returns
repl_line(d, argv) ==
    IF argv = <<>> THEN {[err |-> NoError, dir |-> d]}
    ELSE IF Head(argv) = CD THEN {dir_cd(d, Tail(argv))}
    ELSE repl_execute(d)

\* The lines a user types, as parse_line splits them:
\*   (empty)   cd   cd /h   cd x   cd -   cd / /h   a
ReplLines ==
    <<<<>>, <<CD>>, <<CD, <<"/", "h">>>>, <<CD, <<"x">>>>, <<CD, <<"-">>>>,
      <<CD, <<"/">>, <<"/", "h">>>>, <<<<"a">>>>>>

InitRepl ==
    /\ IdleExec
    /\ IdleWord
    /\ IdleInterp
    /\ IdleLex
    /\ IdleRun
    /\ IdleSpawn
    /\ \E n \in 0..MaxLines :
        \E pick \in [1..n -> 1..Len(ReplLines)] :
            typed = [i \in 1..n |-> ReplLines[pick[i]]]
    /\ repl = [pc |-> "prompt", dir |-> [path |-> <<"/">>, last |-> <<>>],
               prompts |-> 0, printed |-> <<>>, result |-> <<>>,
               eof |-> FALSE, code |-> 0]

\* history.readline returns a line: the body of the loop runs on it
ReplLine ==
    /\ repl # <<>>
    /\ repl.pc = "prompt"
    /\ typed # <<>>
    /\ typed' = Tail(typed)
    /\ \E r \in repl_line(repl.dir, Head(typed)) :
        repl' = CASE r.err = NoError ->
                        [repl EXCEPT !.prompts = @ + 1, !.dir = r.dir]
                  [] r.err = Panic ->
                        [repl EXCEPT !.prompts = @ + 1, !.pc = "panicked"]
                  [] OTHER ->
                        [repl EXCEPT !.prompts = @ + 1, !.pc = "returned",
                                     !.result = <<r.err>>]
    /\ UNCHANGED outsideRepl

\* history.readline returns None: the loop ends and repl returns Ok(())
ReplEnd ==
    /\ repl # <<>>
    /\ repl.pc = "prompt"
    /\ typed = <<>>
    /\ repl' = [repl EXCEPT !.prompts = @ + 1, !.pc = "returned",
                            !.result = <<NoError>>, !.eof = TRUE]
    /\ UNCHANGED typed
    /\ UNCHANGED outsideRepl

\* fn main: the error of repl is displayed; process::exit(code)
MainExit ==
    /\ repl # <<>>
    /\ repl.pc = "returned"
    /\ repl' = IF repl.result = <<NoError>>
                  THEN [repl EXCEPT !.pc = "exited", !.code = 0]
                  ELSE [repl EXCEPT !.pc = "exited", !.code = 1,
                                    !.printed = Append(@, repl.result[1])]
    /\ UNCHANGED typed
    /\ UNCHANGED outsideRepl

NextRepl ==
    \/ ReplLine
    \/ ReplEnd
    \/ MainExit

SpecRepl == InitRepl /\ [][NextRepl]_vars

(***************************************************************************)
(* The lexer run as the parser runs it: Lexer::next is called until it     *)
(* returns None or an error.                                               *)
(***************************************************************************)
\* the bytes the lexer branches on, in two groups: words, terminators,
\* braces, pipes and quotes; and the bytes of redirections
LexAlphabet == {"a", " ", "\n", ";", "{", "}", "|", "\"", "'"}
RedirectAlphabet == {"a", " ", "<", ">", "&", "0", "1", "2"}

LexInputs ==
    BytesUpTo(LexAlphabet, MaxSrcLen)
    \cup BytesUpTo(RedirectAlphabet, MaxRedirectLen)

\* the number of bytes of the script the lexer has consumed
Consumed(lx) == Len(script) - Len(lx.src) - Len(lx.peek)

\* The index in the script of the byte at which the token of the next call
\* begins, 0 if there is none: a buffered RightBrace began at the `}` just
\* consumed; otherwise whitespace is skipped, and line terminators too
\* while no token has been emitted.
TokenStart(lx) ==
    IF lx.next # <<>> THEN Consumed(lx)
    ELSE LET skipped(b) == \/ b \in {" ", "\t", "\f", "\r"}
                           \/ lx.last = <<>> /\ b \in {"\n", ";"}
             rest == {i \in (Consumed(lx) + 1)..Len(script) :
                         ~skipped(script[i])}
         IN IF rest = {} THEN 0
            ELSE CHOOSE i \in rest : \A j \in rest : i <= j

InitLex ==
    /\ IdleExec
    /\ IdleWord
    /\ IdleInterp
    /\ IdleRun
    /\ IdleSpawn
    /\ IdleRepl
    /\ script \in LexInputs
    /\ lexer = Lexer(script)
    /\ tokens = <<>>
    /\ lexStatus = "running"
    /\ parsed = NoParse

\* Lexer::next returns Some(Ok(token))
LexToken ==
    /\ lexStatus = "running"
    /\ \E r \in {lexer_next(lexer)} :
        /\ r.tag = "Some"
        /\ ~r.lx.panic
        /\ lexer' = r.lx
        /\ tokens' = Append(tokens, [kind |-> r.token.kind,
                                     line |-> r.token.line,
                                     start |-> TokenStart(lexer),
                                     from |-> Consumed(lexer),
                                     upto |-> Consumed(r.lx)])
    /\ UNCHANGED <<script, lexStatus, parsed>>
    /\ UNCHANGED outsideLex

\* Lexer::next returns None
LexEnd ==
    /\ lexStatus = "running"
    /\ \E r \in {lexer_next(lexer)} :
        /\ r.tag = "None"
        /\ ~r.lx.panic
        /\ lexer' = r.lx
    /\ lexStatus' = "done"
    /\ UNCHANGED <<script, tokens, parsed>>
    /\ UNCHANGED outsideLex

\* Lexer::next returns Some(Err(e)); the caller stops at the error
LexError ==
    /\ lexStatus = "running"
    /\ \E r \in {lexer_next(lexer)} :
        /\ r.tag = "Err"
        /\ ~r.lx.panic
        /\ lexer' = r.lx
    /\ lexStatus' = "error"
    /\ UNCHANGED <<script, tokens, parsed>>
    /\ UNCHANGED outsideLex

\* Lexer::next panics
LexPanic ==
    /\ lexStatus = "running"
    /\ \E r \in {lexer_next(lexer)} :
        /\ r.tag = "Panic" \/ r.lx.panic
        /\ lexer' = r.lx
    /\ lexStatus' = "panic"
    /\ UNCHANGED <<script, tokens, parsed>>
    /\ UNCHANGED outsideLex

NextLex ==
    \/ LexToken
    \/ LexEnd
    \/ LexError
    \/ LexPanic

SpecLex == InitLex /\ [][NextLex]_vars

(***************************************************************************)
(* parse applied to a script                                               *)
(***************************************************************************)
\* pieces of shell text; a script is up to MaxChunks of them in a row
ParseChunks ==
    { <<" ", "a">>,
      <<" ", "A", "=", "a">>,
      <<" ", "e", "x", "p", "o", "r", "t", " ", "A">>,
      <<" ", "i", "f", " ", "a", " ", "{">>,
      <<" ", "w", "h", "i", "l", "e", " ", "a", " ", "{">>,
      <<" ", "}", " ", "e", "l", "s", "e", " ", "{">>,
      <<" ", "}", " ", "e", "l", "s", "e", " ", "i", "f", " ", "a", " ", "{">>,
      <<" ", "}">>,
      <<";">>,
      <<"\n">>,
      <<" ", "|">>,
      <<" ", "|", " ", "a">>,
      <<" ", ">", "a">> }

RECURSIVE Join(_)
Join(chunks) ==
    IF chunks = <<>> THEN <<>> ELSE Head(chunks) \o Join(Tail(chunks))

InitParse ==
    /\ IdleExec
    /\ IdleWord
    /\ IdleInterp
    /\ IdleRun
    /\ IdleSpawn
    /\ IdleRepl
    /\ \E chunks \in BytesUpTo(ParseChunks, MaxChunks) :
           script = Join(chunks)
    /\ lexer = Lexer(<<>>)
    /\ tokens = <<>>
    /\ lexStatus = "idle"
    /\ parsed = NoParse

\* parse(script) is called and returns
DoParse ==
    /\ ~parsed.done
    /\ \E r \in {parse(script)} : parsed' = Parsed(r)
    /\ UNCHANGED <<script, lexer, tokens, lexStatus>>
    /\ UNCHANGED outsideLex

NextParse == DoParse

SpecParse == InitParse /\ [][NextParse]_vars

(***************************************************************************)
(* interpreter.rs: execute, spawn_children                                 *)
(***************************************************************************)
SIGINT == "SIGINT"
SIGQUIT == "SIGQUIT"
SIGCHLD == "SIGCHLD"

\* the sigset built by execute: SIGINT, SIGQUIT, SIGCHLD
sigset == {SIGINT, SIGQUIT, SIGCHLD}

Pids == 1..MaxPipeline

NoOutcome == [kind |-> "None", code |-> 0]
Exited(code) == [kind |-> "Exited", code |-> code]
Signaled == [kind |-> "Signaled", code |-> 0]
Outcomes == {Exited(c) : c \in 0..MaxExitCode} \cup {Signaled}

\* State at the entry of execute for a pipeline of n commands.
EnterExecute(n, m) ==
    /\ pc = "spawn"
    /\ ncmds = n
    /\ forked = 0
    /\ child = [p \in Pids |-> "unborn"]
    /\ outcome = [p \in Pids |-> NoOutcome]
    /\ pids = {}
    /\ last_pid = 0
    /\ status = "Success"
    /\ mask = m
    /\ mask0 = m
    /\ pending = {}
    /\ removed = [p \in Pids |-> 0]
    /\ interrupts = 0

\* spawn_children: one iteration of the while loop, parent side of fork().
\* The last fork returns (pids, child) to execute, which goes on to build
\* the sigset.
Fork ==
    /\ pc = "spawn"
    /\ forked < ncmds
    /\ LET p == forked + 1 IN
        /\ forked' = p
        /\ child' = [child EXCEPT ![p] = "running"]
        /\ pids' = pids \cup {p}
        /\ IF p = ncmds
              THEN last_pid' = p /\ pc' = "block"
              ELSE last_pid' = last_pid /\ pc' = "spawn"
    /\ UNCHANGED <<ncmds, outcome, status, mask, mask0, pending, removed,
                   interrupts>>
    /\ UNCHANGED outsideExec

\* signal::sigprocmask(SIG_BLOCK, Some(&sigset), None)
Block ==
    /\ pc = "block"
    /\ mask' = mask \cup sigset
    /\ pc' = "sigwait"
    /\ UNCHANGED <<ncmds, forked, child, outcome, pids, last_pid, status,
                   mask0, pending, removed, interrupts>>
    /\ UNCHANGED outsideExec

\* sigset.wait(): blocks until a signal of the set is pending, takes it.
\* SIGINT | SIGQUIT are ignored, SIGCHLD enters the waitpid loop.
SigWait ==
    /\ pc = "sigwait"
    /\ \E s \in pending \cap sigset :
        /\ pending' = pending \ {s}
        /\ pc' = IF s = SIGCHLD THEN "waitpid" ELSE "sigwait"
    /\ UNCHANGED <<ncmds, forked, child, outcome, pids, last_pid, status,
                   mask, mask0, removed, interrupts>>
    /\ UNCHANGED outsideExec

Zombies == {p \in Pids : child[p] = "zombie"}
Running == {p \in Pids : child[p] = "running"}

\* The status execute records when pid p is reaped with outcome o.
ReapStatusAnyPid(p, o) ==
    IF o.kind = "Exited" THEN StatusFrom(o.code) ELSE "Failure"

ReapStatus(p, o) ==
    IF p = last_pid
       THEN IF o.kind = "Exited" THEN StatusFrom(o.code) ELSE "Failure"
       ELSE status

\* wait::waitpid(None, WNOHANG) inside the SIGCHLD arm.
WaitPidReap ==
    /\ pc = "waitpid"
    /\ \E p \in Zombies :
        /\ child' = [child EXCEPT ![p] = "reaped"]
        /\ IF p \in pids
              THEN /\ pids' = pids \ {p}
                   /\ removed' = [removed EXCEPT ![p] = @ + 1]
                   /\ status' = ReapStatus(p, outcome[p])
                   /\ pc' = "waitpid"
              ELSE \* assert!(pids.remove(&pid)) fails
                   /\ pc' = "panic"
                   /\ UNCHANGED <<pids, removed, status>>
    /\ UNCHANGED <<ncmds, forked, outcome, last_pid, mask, mask0, pending,
                   interrupts>>
    /\ UNCHANGED outsideExec

\* Ok(WaitStatus::StillAlive) => break
WaitPidStillAlive ==
    /\ pc = "waitpid"
    /\ Zombies = {}
    /\ Running # {}
    /\ pc' = "sigwait"
    /\ UNCHANGED <<ncmds, forked, child, outcome, pids, last_pid, status,
                   mask, mask0, pending, removed, interrupts>>
    /\ UNCHANGED outsideExec

\* Err(Sys(Errno::ECHILD)) => break 'outer
WaitPidNoChild ==
    /\ pc = "waitpid"
    /\ Zombies = {}
    /\ Running = {}
    /\ pc' = "assert"
    /\ UNCHANGED <<ncmds, forked, child, outcome, pids, last_pid, status,
                   mask, mask0, pending, removed, interrupts>>
    /\ UNCHANGED outsideExec

\* assert!(pids.is_empty()); sigprocmask(SIG_UNBLOCK, Some(&sigset), None);
\* status.  Signals of the set still pending are delivered on unblocking.
Unblock ==
    /\ pc = "assert"
    /\ IF pids = {}
          THEN /\ mask' = mask \ sigset
               /\ pending' = pending \ sigset
               /\ pc' = "done"
          ELSE /\ pc' = "panic"
               /\ UNCHANGED <<mask, pending>>
    /\ UNCHANGED <<ncmds, forked, child, outcome, pids, last_pid, status,
                   mask0, removed, interrupts>>
    /\ UNCHANGED outsideExec

\* The next external command of the program enters execute.
NextCommand ==
    /\ pc = "done"
    /\ \E n \in 1..MaxPipeline :
        /\ pc' = "spawn"
        /\ ncmds' = n
        /\ forked' = 0
        /\ child' = [p \in Pids |-> "unborn"]
        /\ outcome' = [p \in Pids |-> NoOutcome]
        /\ pids' = {}
        /\ last_pid' = 0
        /\ status' = "Success"
        /\ mask0' = mask
        /\ pending' = {}
        /\ removed' = [p \in Pids |-> 0]
        /\ interrupts' = 0
    /\ UNCHANGED mask
    /\ UNCHANGED outsideExec

\* A forked child terminates (exit or killed by a signal); the kernel
\* raises SIGCHLD for the shell.
ChildTerminate ==
    /\ \E p \in Running, o \in Outcomes :
        /\ child' = [child EXCEPT ![p] = "zombie"]
        /\ outcome' = [outcome EXCEPT ![p] = o]
    /\ pending' = pending \cup {SIGCHLD}
    /\ UNCHANGED <<pc, ncmds, forked, pids, last_pid, status, mask, mask0,
                   removed, interrupts>>
    /\ UNCHANGED outsideExec

\* Interpreter::new installs the handler `nothing` for SIGCHLD: an
\* unblocked pending SIGCHLD is delivered to it and is gone.
HandlerNothing ==
    /\ SIGCHLD \in pending
    /\ SIGCHLD \notin mask
    /\ pending' = pending \ {SIGCHLD}
    /\ UNCHANGED <<pc, ncmds, forked, child, outcome, pids, last_pid, status,
                   mask, mask0, removed, interrupts>>
    /\ UNCHANGED outsideExec

\* SIGINT or SIGQUIT is sent to the foreground group while the parent
\* waits with the signals blocked.
Interrupt ==
    /\ pc \in {"sigwait", "waitpid"}
    /\ interrupts < MaxInterrupts
    /\ \E s \in {SIGINT, SIGQUIT} :
        /\ s \in mask
        /\ pending' = pending \cup {s}
    /\ interrupts' = interrupts + 1
    /\ UNCHANGED <<pc, ncmds, forked, child, outcome, pids, last_pid, status,
                   mask, mask0, removed>>
    /\ UNCHANGED outsideExec

\* The steps of the shell process itself inside execute.
ParentStep ==
    \/ Fork
    \/ Block
    \/ SigWait
    \/ WaitPidReap
    \/ WaitPidStillAlive
    \/ WaitPidNoChild
    \/ Unblock

InitExec ==
    /\ IdleWord
    /\ IdleInterp
    /\ IdleRun
    /\ IdleSpawn
    /\ IdleRepl
    /\ IdleLex
    /\ \E n \in 1..MaxPipeline, m \in SUBSET sigset : EnterExecute(n, m)

NextExec ==
    \/ Fork
    \/ Block
    \/ SigWait
    \/ WaitPidReap
    \/ WaitPidStillAlive
    \/ WaitPidNoChild
    \/ Unblock
    \/ NextCommand
    \/ ChildTerminate
    \/ HandlerNothing
    \/ Interrupt

SpecExec == InitExec /\ [][NextExec]_vars

\* The shell process is scheduled: a step of execute that stays enabled is
\* eventually taken.  Nothing is assumed of the children or of the signals.
FairSpecExec == SpecExec /\ WF_vars(ParentStep)

(***************************************************************************)
(* Claims about execute                                                    *)
(***************************************************************************)
AllChildrenTerminated ==
    /\ forked = ncmds
    /\ \A p \in 1..ncmds : child[p] \in {"zombie", "reaped"}

\* C1: once all n >= 1 forked children of the pipeline have terminated,
\* execute eventually returns, in every interleaving of the children's
\* termination with the parent's steps, and with SIGINT/SIGQUIT arriving
\* while the parent waits.
C1_ExecuteEventuallyReturns ==
    (AllChildrenTerminated /\ pc # "done") ~> (pc = "done")

\* The wait loop of execute has returned: at assert!(pids.is_empty()) or
\* past it.
WaitLoopReturned == pc \in {"assert", "done"}

\* C2: whenever the wait loop of execute returns, every forked child pid
\* has been removed from the pid set exactly once (neither assert fails)
\* and the returned Status is Success iff the last command's child exited
\* with code 0, Failure if it exited non-zero or was killed by a signal,
\* whatever the exit codes and the termination order of the other children.
C2_WaitLoopStatus ==
    /\ pc # "panic"
    /\ WaitLoopReturned =>
        /\ pids = {}
        /\ \A p \in 1..ncmds : removed[p] = 1
        /\ status = "Success" <=> outcome[ncmds] = Exited(EXIT_SUCCESS)
        /\ status = "Failure" <=>
              \/ outcome[ncmds].kind = "Signaled"
              \/ outcome[ncmds].kind = "Exited" /\ outcome[ncmds].code # 0

\* execute returned Success for a pipeline of three whose last child
\* exited 0 while the first was killed and the second exited non-zero.
C2_Witness ==
    /\ pc = "done"
    /\ ncmds = 3
    /\ outcome[1] = Signaled
    /\ outcome[2] = Exited(1)
    /\ outcome[3] = Exited(0)
    /\ status = "Success"
    /\ \A p \in 1..3 : removed[p] = 1

(***************************************************************************)
(* Claims about word.rs.  The Ref* operators state what the claims say,    *)
(* independently of the operators above.                                   *)
(***************************************************************************)
NameBytes == AsciiAlphabetic \cup AsciiDigit \cup {"_"}

\* a valid name: non-empty, name bytes only, not starting with a digit
RefValidName(b) ==
    /\ Len(b) > 0
    /\ \A i \in 1..Len(b) : b[i] \in NameBytes
    /\ b[1] \notin AsciiDigit

\* the value a reference to `name` stands for: empty when unset
RefValue(e, name) == IF name \in DOMAIN e THEN e[name].value ELSE <<>>

\* length of the longest prefix of b made of name bytes
RefNameSpan(b) ==
    CHOOSE k \in 0..Len(b) :
        /\ \A i \in 1..k : b[i] \in NameBytes
        /\ k < Len(b) => b[k + 1] \notin NameBytes

\* Variable expansion as C4 states it, reference by reference from the left.
RECURSIVE RefVars(_, _)
RefVars(e, b) ==
    IF b = <<>> THEN Ok(<<>>)
    ELSE IF b[1] # "$"
         THEN LET r == RefVars(e, Tail(b)) IN
              IF r.err # NoError THEN r ELSE Ok(<<b[1]>> \o r.value)
    ELSE IF Len(b) = 1 THEN Ok(<<"$">>)
    ELSE IF b[2] = "{"
         THEN LET close == Position(From(b, 3), "}") IN
              IF close = 0 THEN Err(MissingBrace)
              ELSE LET name == SubSeq(b, 3, close + 1)
                       r == RefVars(e, From(b, close + 3))
                   IN IF ~RefValidName(name) THEN Err(InvalidName)
                      ELSE IF r.err # NoError THEN r
                      ELSE Ok(RefValue(e, name) \o r.value)
    ELSE LET k == RefNameSpan(Tail(b))
             name == SubSeq(b, 2, k + 1)
             r == RefVars(e, From(b, k + 2))
         IN IF ~RefValidName(name) THEN Err(InvalidName)
            ELSE IF r.err # NoError THEN r
            ELSE Ok(RefValue(e, name) \o r.value)

\* Tilde expansion as C6 states it.
RefTilde(db, h, b) ==
    IF b = <<>> \/ b[1] # "~" THEN b
    ELSE IF b = <<"~">> THEN h
    ELSE IF b[2] = "/" THEN h \o Tail(b)
    ELSE LET slash == Position(b, "/")
             name == IF slash = 0 THEN Tail(b) ELSE SubSeq(b, 2, slash - 1)
             rest == IF slash = 0 THEN <<>> ELSE From(b, slash)
         IN IF name \in DOMAIN db THEN db[name] \o rest ELSE b

Expanded == wresult.op = "expand"
Result == [err |-> wresult.err, value |-> wresult.value]

\* C3: Word::expand returns a Single-quoted word's bytes unchanged, applies
\* only variable expansion to a Double-quoted word (a leading `~` stays
\* literal), and for an unquoted word applies tilde expansion first and
\* then variable expansion to the result of the tilde step.
C3_ExpandByQuote ==
    Expanded =>
        /\ word.quote = QSingle => Result = Ok(word.value)
        /\ word.quote = QDouble => Result = RefVars(env, word.value)
        /\ word.quote = QNone =>
               Result = RefVars(env, RefTilde(passwd, env[HOME].value,
                                              word.value))

\* An unquoted `~/$A` expanded where HOME itself holds a reference: the
\* reference that the tilde step brought in is expanded by the second step.
C3_Witness ==
    /\ Expanded
    /\ word = Unquoted(<<"~", "/", "$", "A">>)
    /\ env[HOME].value = <<"$", "A">>
    /\ VarA \in DOMAIN env
    /\ env[VarA].value = <<"b">>
    /\ Result = Ok(<<"b", "/", "b">>)

\* C4: variable expansion replaces every `$NAME` (greedy over name bytes)
\* and every `${NAME}` by the variable's current value (empty when unset),
\* copies a `$` that is the last byte literally, never rescans a
\* substituted value, and returns an error with no output when a `${` has
\* no closing `}` or the collected name is not a valid name.  Checked on
\* Double-quoted words, where variable expansion is the whole expansion.
C4_VariableExpansion ==
    (Expanded /\ word.quote = QDouble) =>
        /\ Result = RefVars(env, word.value)
        /\ wresult.err # NoError => wresult.value = <<>>

\* `$A$` where A's value is `$A`: the value is inserted and not rescanned,
\* the trailing `$` is copied.
C4_Witness ==
    /\ Expanded
    /\ word = Word(<<"$", "A", "$">>, QDouble)
    /\ VarA \in DOMAIN env
    /\ env[VarA].value = <<"$", "A">>
    /\ Result = Ok(<<"$", "A", "$">>)

\* b holds a `$` followed by a valid-name start byte
HasReference(b) ==
    \E i \in 1..(Len(b) - 1) :
        b[i] = "$" /\ (b[i + 1] \in AsciiAlphabetic \/ b[i + 1] = "_")

\* the word is `~name[/rest]` and the password database has no `name`
TildeLookupFailed ==
    /\ Len(word.value) >= 2
    /\ word.value[1] = "~"
    /\ word.value[2] # "/"
    /\ LET slash == Position(word.value, "/")
           name == IF slash = 0 THEN Tail(word.value)
                   ELSE SubSeq(word.value, 2, slash - 1)
       IN name \notin DOMAIN passwd

StartsWithTilde(b) == b # <<>> /\ b[1] = "~"

\* C5 as stated: for any unquoted word W and any environment, a successful
\* expand(W, env) does not contain `$` followed by a valid-name start byte,
\* and does not start with `~` unless `~` expansion failed (no such user).
C5_Original ==
    (Expanded /\ word.quote = QNone /\ wresult.err = NoError) =>
        /\ ~HasReference(wresult.value)
        /\ StartsWithTilde(wresult.value) => TildeLookupFailed

\* no value of the environment and no home of the password database holds
\* a `$` or starts with `~`
PlainValues ==
    /\ \A n \in DOMAIN env :
           Position(env[n].value, "$") = 0 /\ ~StartsWithTilde(env[n].value)
    /\ \A u \in DOMAIN passwd :
           Position(passwd[u], "$") = 0 /\ ~StartsWithTilde(passwd[u])

\* C5 as amended: when no variable value and no password-database home
\* holds a `$` or starts with `~`, a successful expand of an unquoted W
\* holds no `$` followed by a valid-name start byte, and if W starts with
\* `~` the result does not start with `~` unless the user lookup failed.
C5_ExpansionComplete ==
    (Expanded /\ word.quote = QNone /\ wresult.err = NoError /\ PlainValues)
        =>
        /\ ~HasReference(wresult.value)
        /\ (StartsWithTilde(word.value) /\ StartsWithTilde(wresult.value))
               => TildeLookupFailed

\* `~/$A` with plain values: both steps acted and nothing is left over.
C5_Witness ==
    /\ Expanded
    /\ PlainValues
    /\ env[HOME].value = <<"/", "h">>
    /\ word = Unquoted(<<"~", "/", "$", "A">>)
    /\ VarA \in DOMAIN env
    /\ Result = Ok(<<"/", "h", "/", "b">>)

\* C6: tilde expansion of an unquoted word: `~` alone yields HOME; `~/rest`
\* yields HOME followed by `/rest`; `~name` and `~name/rest` yield the
\* password-database home of `name` followed by `/rest`, or the word
\* unchanged when the lookup fails; a word whose first byte is not `~` is
\* returned unchanged even if it contains `~` later.
C6_TildeExpansion ==
    (Expanded /\ word.quote = QNone) =>
        LET b == word.value
            h == env[HOME].value
            t == wresult.tilde[1]
        IN /\ b = <<"~">> => t = h
           /\ (Len(b) >= 2 /\ b[1] = "~" /\ b[2] = "/") => t = h \o Tail(b)
           /\ \A k \in 1..(Len(b) - 1) :
                 LET name == SubSeq(b, 2, k + 1)
                     rest == From(b, k + 2)
                 IN (/\ b[1] = "~"
                     /\ \A i \in 1..k : name[i] # "/"
                     /\ rest # <<>> => rest[1] = "/")
                    => t = IF name \in DOMAIN passwd
                              THEN passwd[name] \o rest
                              ELSE b
           /\ (b = <<>> \/ b[1] # "~") => t = b

\* `~A/~`: the home of user A, and the later `~` stays.
C6_Witness ==
    /\ Expanded
    /\ word = Unquoted(<<"~", "A", "/", "~">>)
    /\ wresult.tilde = <<(<<"/", "u", "/", "~">>)>>
\* C7: Word::parse_name_value_pair returns a pair iff the word is
\* unquoted, contains `=`, its first `=` is not at position 0 and the bytes
\* before the first `=` form a valid name; the pair's value is the bytes
\* after the first `=` (possibly empty), with one layer of matching
\* surrounding '...' or "..." removed and recorded as the value's quote tag.
C7_NameValuePair ==
    wresult.op = "pair" =>
        LET b == word.value
            eqs == {i \in 1..Len(b) : b[i] = "="}
            IsPair == /\ word.quote = QNone
                      /\ eqs # {}
                      /\ 1 \notin eqs
                      /\ \E i \in eqs : /\ \A j \in eqs : i <= j
                                        /\ RefValidName(SubSeq(b, 1, i - 1))
        IN /\ (wresult.pair # <<>>) <=> IsPair
           /\ wresult.pair # <<>> =>
                \E i \in eqs :
                    /\ \A j \in eqs : i <= j
                    /\ wresult.pair[1].name = Unquoted(SubSeq(b, 1, i - 1))
                    /\ LET v == From(b, i + 1)
                           n == Len(v)
                           wrapped == /\ n >= 2
                                      /\ v[1] = v[n]
                                      /\ v[1] \in {"'", "\""}
                       IN wresult.pair[1].value =
                            IF wrapped
                               THEN Word(SubSeq(v, 2, n - 1),
                                         IF v[1] = "'" THEN QSingle
                                         ELSE QDouble)
                               ELSE Unquoted(v)

\* `A=''`: a pair whose value is the empty Single-quoted word.
C7_Witness ==
    /\ wresult.op = "pair"
    /\ word = Unquoted(<<"A", "=", "'", "'">>)
    /\ wresult.pair = <<NameValuePair(Unquoted(<<"A">>), Word(<<>>, QSingle))>>

(***************************************************************************)
(* Claims about the environment and the interpreter's statements           *)
(***************************************************************************)
\* what a word expands to, as C3 states it
RefExpand(db, e, w) ==
    IF w.quote = QSingle THEN Ok(w.value)
    ELSE IF w.quote = QDouble THEN RefVars(e, w.value)
    ELSE RefVars(e, RefTilde(db, e[HOME].value, w.value))

AssignEffect ==
    (lastOp'.op = "assign" /\ lastOp'.err = NoError) =>
        LET n == lastOp'.stmt.name.value
            v == RefExpand(passwd, env, lastOp'.stmt.value).value
        IN /\ DOMAIN env' = DOMAIN env \cup {n}
           /\ env'[n].value = v
           /\ env'[n].is_exported = (n \in DOMAIN env /\ env[n].is_exported)
           /\ \A m \in DOMAIN env \ {n} : env'[m] = env[m]

NeverExportedNotYielded ==
    \A n \in DOMAIN env : n \notin everExported => n \notin iter_exported(env)

\* C8: Environment::assign of NAME sets NAME's value to the expanded value,
\* leaves NAME exported iff it was exported before (a new name is inserted
\* with exported=false), and changes no other entry; hence after any
\* sequence of assign/export operations a name that was assigned but never
\* exported is never yielded by iter_exported, also after exports of other
\* names.
C8_AssignFrame == [][AssignEffect]_vars /\ []NeverExportedNotYielded

\* B was assigned and never exported, and A has just been exported: B is in
\* the environment and iter_exported does not yield it.
C8_Witness ==
    /\ lastOp.op = "export"
    /\ lastOp.err = NoError
    /\ lastOp.stmt.name.value = VarA
    /\ VarB \in DOMAIN env
    /\ VarB \notin everExported
    /\ env[VarB].value = <<"1">>
    /\ iter_exported(env) = {HOME, VarA}

ExportEffect ==
    (lastOp'.op = "export" /\ lastOp'.err = NoError) =>
        LET n == lastOp'.stmt.name.value
            x == lastOp'.stmt.value
        IN /\ n \in DOMAIN env'
           /\ env'[n] =
                IF x # <<>>
                   THEN Var(RefExpand(passwd, env, x[1]).value, TRUE)
                   ELSE Var(IF n \in DOMAIN env THEN env[n].value ELSE <<>>,
                            TRUE)

\* `export NAME` right after a successful export of the same NAME (with or
\* without a value) changes nothing.
ExportAgain ==
    (/\ lastOp.op = "export"
     /\ lastOp.err = NoError
     /\ lastOp'.op = "export"
     /\ lastOp'.stmt = Exportable(lastOp.stmt.name, <<>>))
    => env' = env

\* C9: Environment::export with a value sets the name to the expanded value
\* with exported=true whether or not it existed; export without a value
\* sets exported=true and keeps the existing value, or inserts the empty
\* string with exported=true when the name is absent; so `export FOO=bar`
\* followed by `export FOO` leaves FOO=bar exported, and repeating
\* `export NAME` changes nothing.
C9_Export == [][ExportEffect /\ ExportAgain]_vars

\* `export B` on a B that holds the value 1: B still holds 1, exported.
C9_Witness ==
    /\ lastOp.op = "export"
    /\ lastOp.stmt = Exportable(Unquoted(VarB), <<>>)
    /\ env[VarB] = Var(<<"1">>, TRUE)

CommandFrame ==
    lastOp'.op = "command" =>
        /\ env' = env
        /\ LET chain == Chain(lastOp'.stmt) IN
           /\ Len(childEnvs') \in {0, Len(chain)}
           /\ \A i \in 1..Len(childEnvs') :
                LET inline == chain[i].env
                    array == childEnvs'[i]
                    off == Len(array) - Len(inline)
                IN /\ off >= 0
                   /\ \A k \in 1..Len(inline) :
                        array[off + k] =
                            inline[k].name.value \o <<"=">>
                            \o RefExpand(passwd, env, inline[k].value).value

\* C10: executing a Command statement that carries inline assignments
\* leaves the interpreter's live environment unchanged (no name added, no
\* value changed, no exported flag changed), whatever the command's
\* outcome; the inline pairs reach only the spawned child's environment
\* array.
C10_InlineAssignments == [][CommandFrame]_vars

\* `A=1 ls` ran in an environment without A: the child got A=1 and the
\* environment still has no A.
C10_Witness ==
    /\ lastOp.op = "command"
    /\ lastOp.stmt.env = <<PairA1>>
    /\ Len(childEnvs) = 1
    /\ childEnvs[1][Len(childEnvs[1])] = <<"A", "=", "1">>
    /\ VarA \notin DOMAIN env

\* the entry of an env array is an entry for the name n
EntryOf(entry, n) ==
    /\ Len(entry) > Len(n)
    /\ SubSeq(entry, 1, Len(n) + 1) = n \o <<"=">>

ChildArrays ==
    lastOp'.op = "command" =>
        LET chain == Chain(lastOp'.stmt)
            exported == {n \in DOMAIN env : env[n].is_exported}
            k == Cardinality(exported)
        IN \A i \in 1..Len(childEnvs') :
            LET array == childEnvs'[i]
                inline == chain[i].env
            IN /\ Len(array) = k + Len(inline)
               /\ \A n \in exported :
                    /\ \E j \in 1..k : array[j] = n \o <<"=">> \o env[n].value
                    /\ Cardinality({j \in 1..k : EntryOf(array[j], n)}) = 1
               /\ \A j \in 1..Len(inline) :
                    array[k + j] =
                        inline[j].name.value \o <<"=">>
                        \o RefExpand(passwd, env, inline[j].value).value
               /\ \A n \in DOMAIN env \ exported :
                    \A j \in 1..k : ~EntryOf(array[j], n)

\* C11: the environment array handed to exec for a child holds exactly one
\* NAME=value entry for every variable marked exported, followed by the
\* command's inline assignments in declaration order; a variable that is in
\* the environment with exported=false has no entry among them.
C11_ChildEnvArray == [][ChildArrays]_vars

\* `A=1 B=$A ls $A` ran with HOME and A exported and B assigned but not
\* exported: the child's array has four entries, the last two the inline
\* pairs.
C11_Witness ==
    /\ lastOp.op = "command"
    /\ Len(lastOp.stmt.env) = 2
    /\ Len(childEnvs) = 1
    /\ VarB \in DOMAIN env
    /\ ~env[VarB].is_exported
    /\ VarA \in DOMAIN env
    /\ env[VarA].is_exported
    /\ Len(childEnvs[1]) = 4
    /\ childEnvs[1][3] = <<"A", "=", "1">>

(***************************************************************************)
(* The token stream of the lexer                                           *)
(***************************************************************************)
IsSemi(i) == tokens[i].kind.k = "Semi"
IsKind(i, k) == tokens[i].kind.k = k

\* the script holds nothing but whitespace and line terminators
OnlyBlank == \A i \in 1..Len(script) : script[i] \in {" ", "\n", ";"}

\* C12: when the lexer reaches the end of the input without an error, the
\* token sequence ends with a Semi exactly when a token other than Semi
\* was emitted, and an input of only whitespace and line terminators
\* yields no token at all.
C12_SemiTerminated ==
    lexStatus = "done" =>
        /\ (tokens # <<>> /\ IsSemi(Len(tokens)))
               <=> (\E i \in 1..Len(tokens) : ~IsSemi(i))
        /\ tokens # <<>> => IsSemi(Len(tokens))
        /\ OnlyBlank => tokens = <<>>

C12_Witness ==
    /\ lexStatus = "done"
    /\ Len(tokens) = 4
    /\ IsKind(1, "Word") /\ IsKind(2, "Pipe") /\ IsKind(3, "Word")
    /\ IsSemi(4)
    /\ script[Len(script)] = "a"

\* C13: every Semi is immediately preceded by a token that is not a Semi:
\* the stream never starts with a Semi and never holds two in a row, also
\* when the line terminators are separated only by spaces or tabs.
C13_NoSemiRun ==
    \A i \in 1..Len(tokens) : IsSemi(i) => i > 1 /\ ~IsSemi(i - 1)

\* token i is a Semi that Lexer::next emitted for a `\n` or `;` byte
SemiOfTerminator(i) ==
    /\ IsSemi(i)
    /\ tokens[i].start > 0
    /\ script[tokens[i].start] \in {"\n", ";"}

\* C14: line terminators that follow a `{`, directly or after spaces or
\* tabs, emit no token: the token right after a LeftBrace is never a Semi
\* produced by a `\n` or `;` byte.
C14_BlockStartsClean ==
    \A i \in 1..Len(tokens) :
        i > 1 /\ IsKind(i - 1, "LeftBrace") => ~SemiOfTerminator(i)

\* the kinds of the tokens emitted, in order
Kinds == [i \in 1..Len(tokens) |-> tokens[i].kind.k]

\* the script is `{`, then only `\n` bytes, then `}`
BracesAroundEmptyLines ==
    /\ Len(script) >= 2
    /\ script[1] = "{"
    /\ script[Len(script)] = "}"
    /\ \A i \in 2..(Len(script) - 1) : script[i] = "\n"

\* C15, as the code has it: tokenizing `{` then `}` with any number of
\* empty lines between yields LeftBrace, RightBrace, Semi; no Semi stands
\* between the braces.
C15_EmptyBlock ==
    BracesAroundEmptyLines /\ lexStatus = "done"
        => Kinds = <<"LeftBrace", "RightBrace", "Semi">>

\* C15, as the specification states it: the same inputs yield LeftBrace,
\* Semi, RightBrace, Semi.
C15_Original ==
    BracesAroundEmptyLines /\ lexStatus = "done"
        => Kinds = <<"LeftBrace", "Semi", "RightBrace", "Semi">>

C15_Witness ==
    /\ script = <<"{", "\n", "\n", "}">>
    /\ lexStatus = "done"
    /\ Len(tokens) = 3

\* the next call of Lexer::next starts a token at a `}` byte, after at
\* least one token
AtRightBrace ==
    /\ lexStatus = "running"
    /\ tokens # <<>>
    /\ lexer.next = <<>>
    /\ TokenStart(lexer) > 0
    /\ script[TokenStart(lexer)] = "}"

Emitted(k) ==
    /\ Len(tokens') = Len(tokens) + 1
    /\ SubSeq(tokens', 1, Len(tokens)) = tokens
    /\ tokens'[Len(tokens')].kind.k = k

\* a `}` after LeftBrace or Semi is emitted as RightBrace at once; after
\* any other token a Semi is emitted and the RightBrace is buffered
RightBraceStep ==
    AtRightBrace =>
        IF tokens[Len(tokens)].kind.k \in {"LeftBrace", "Semi"}
           THEN Emitted("RightBrace") /\ lexer'.next = <<>>
           ELSE Emitted("Semi") /\ lexer'.next = <<KRightBrace>>

\* the buffered RightBrace is the token of the next call, which reads no
\* byte of the input
BufferedStep ==
    lexStatus = "running" /\ lexer.next # <<>> =>
        /\ IsSemi(Len(tokens))
        /\ Emitted("RightBrace")
        /\ lexer'.src = lexer.src
        /\ lexer'.peek = lexer.peek
        /\ lexer'.next = <<>>

RightBracePreceded ==
    \A i \in 2..Len(tokens) :
        IsKind(i, "RightBrace")
            => IsKind(i - 1, "LeftBrace") \/ IsKind(i - 1, "Semi")

\* C16: on a `}` at the start of a token, after at least one token, the
\* lexer emits RightBrace directly when the previous token is LeftBrace or
\* Semi, and otherwise a Semi and then, on the next call and without
\* reading a byte, the buffered RightBrace; so every RightBrace that
\* follows a token is immediately preceded by LeftBrace or Semi.
C16_RightBrace ==
    [][RightBraceStep /\ BufferedStep]_vars /\ []RightBracePreceded

C16_Witness ==
    /\ Len(tokens) = 3
    /\ IsKind(1, "Word") /\ IsSemi(2) /\ IsKind(3, "RightBrace")
    /\ tokens[3].from = tokens[3].upto
    /\ lexer.next = <<>>

\* the line of the byte at index i of the script: 1 plus the number of
\* `\n` bytes before it
LineOf(i) == 1 + Cardinality({j \in 1..(i - 1) : script[j] = "\n"})

\* C17: every token carries a line number >= 1, equal to 1 plus the number
\* of `\n` bytes before the byte at which the token began; a Semi produced
\* by line terminators carries the line of the first terminator of the
\* run, for `\n` and for `;` alike.
C17_TokenLines ==
    \A i \in 1..Len(tokens) :
        /\ tokens[i].line >= 1
        /\ tokens[i].start > 0 => tokens[i].line = LineOf(tokens[i].start)

\* the byte at index i of the script, "" past its end
At(i) == IF i \in 1..Len(script) THEN script[i] ELSE ""

\* the bytes of the unquoted word that begins at index w of the script
WordAt(w) ==
    LET stops == {j \in w..(Len(script) + 1) : At(j) \in {"", " ", "\n", ";"}}
        e == CHOOSE j \in stops : \A k \in stops : j <= k
    IN SubSeq(script, w, e - 1)

\* index w of the script begins a token that is not a word
NotAWord(w) ==
    \/ At(w) \in {"", "\n", ";", "{", "}", "|", "<", ">"}
    \/ At(w) = "0" /\ At(w + 1) = "<"
    \/ At(w) \in {"1", "2"} /\ At(w + 1) = ">"

Expected(redirect) == [ok |-> TRUE, redirect |-> redirect]
Rejected == [ok |-> FALSE, redirect |-> OutErr]

\* The redirection the reference gives for an operator that begins at
\* index s of the script: fd is the stream it names, append whether the
\* operator is doubled, l the index at which the location begins, w the
\* index of the first byte after the spaces that follow the operator.
RefRedirect(s) ==
    LET o == IF At(s) \in {"0", "1", "2"} THEN s + 1 ELSE s
        fd == IF At(o) = "<" THEN Stdin
              ELSE IF At(s) = "2" THEN Stderr ELSE Stdout
        append == fd # Stdin /\ At(o + 1) = ">"
        mode == IF append THEN AppendMode ELSE Truncate
        l == IF append THEN o + 2 ELSE o + 1
        blanks == {j \in l..(Len(script) + 1) : At(j) # " "}
        w == CHOOSE j \in blanks : \A k \in blanks : j <= k
    IN IF At(l) = "&"
          THEN IF append THEN Rejected
               ELSE IF fd = Stdout /\ At(l + 1) = "2" THEN Expected(OutErr)
               ELSE IF fd = Stderr /\ At(l + 1) = "1" THEN Expected(ErrOut)
               ELSE Rejected
       ELSE IF NotAWord(w) THEN Rejected
       ELSE IF fd = Stdin THEN Expected(InFile(Unquoted(WordAt(w))))
       ELSE IF fd = Stdout
            THEN Expected(OutFile(Unquoted(WordAt(w)), mode))
       ELSE Expected(ErrFile(Unquoted(WordAt(w)), mode))

\* every Redirect token emitted is the one the reference gives
RedirectsAsReference ==
    \A i \in 1..Len(tokens) :
        IsKind(i, "Redirect") =>
            /\ RefRedirect(tokens[i].start).ok
            /\ tokens[i].kind.v = RefRedirect(tokens[i].start).redirect

\* the call that follows starts at a redirection operator
AtRedirect ==
    /\ lexer.next = <<>>
    /\ TokenStart(lexer) > 0
    /\ \/ At(TokenStart(lexer)) \in {"<", ">"}
       \/ At(TokenStart(lexer)) = "0" /\ At(TokenStart(lexer) + 1) = "<"
       \/ At(TokenStart(lexer)) \in {"1", "2"}
              /\ At(TokenStart(lexer) + 1) = ">"

\* a call at a redirection operator emits the token of the reference, or
\* yields an error value where the reference rejects; it never panics
RedirectStep ==
    lexStatus = "running" /\ AtRedirect =>
        IF RefRedirect(TokenStart(lexer)).ok
           THEN Emitted("Redirect")
           ELSE lexStatus' = "error" /\ tokens' = tokens

\* C18: lexing a redirection at the start of a token matches the
\* reference: `<w`, `0<w` give InFile(w); `>w`, `1>w`, `>>w`, `1>>w` give
\* OutFile(w, mode); `2>w`, `2>>w` give ErrFile(w, mode); `>&2` OutErr;
\* `2>&1` ErrOut; every other continuation, a missing location included,
\* yields an error value, never a token and never a panic.
C18_RedirectReference ==
    [][RedirectStep]_vars /\ []RedirectsAsReference /\ [](lexStatus # "panic")

\* the call that follows starts a token at a quote byte
AtQuote ==
    /\ lexStatus = "running"
    /\ lexer.next = <<>>
    /\ TokenStart(lexer) > 0
    /\ At(TokenStart(lexer)) \in {"'", "\""}

\* the indexes after s of the script that hold the byte at s
Closing(s) == {j \in (s + 1)..Len(script) : script[j] = script[s]}

\* the Word of the quoted bytes that begin after index s and end at c
QuotedWord(s, c) ==
    Word(SubSeq(script, s + 1, c - 1),
         IF script[s] = "\"" THEN QDouble ELSE QSingle)

QuotedStep ==
    AtQuote =>
        LET s == TokenStart(lexer) IN
        IF Closing(s) = {}
           THEN lexStatus' = "error" /\ tokens' = tokens
           ELSE LET c == CHOOSE j \in Closing(s) :
                             \A k \in Closing(s) : j <= k
                IN /\ Emitted("Word")
                   /\ tokens'[Len(tokens')].kind.v = QuotedWord(s, c)
                   /\ tokens'[Len(tokens')].upto = c

\* C19: a `'` or `"` at the start of a token yields one Word whose bytes
\* are exactly the bytes up to the next occurrence of the same quote byte,
\* whatever they are, tagged Single or Double; with no closing quote the
\* lexer yields an error and no Word.
C19_QuotedWord == [][QuotedStep]_vars

C19_Witness ==
    /\ script = <<"\"", "'", "\n", "{", "\"">>
    /\ Len(tokens) = 1
    /\ tokens[1].kind = KWord(Word(<<"'", "\n", "{">>, QDouble))

(***************************************************************************)
(* The statements of a parsed program                                      *)
(***************************************************************************)
TakenKind(i) == parsed.taken[i].kind.k

Braces(k) == Cardinality({i \in 1..Len(parsed.taken) : TakenKind(i) = k})

\* every statement ends right before a Semi that the parser consumed as
\* the end of a statement
StatementsTerminated ==
    \A e \in parsed.stmts :
        /\ e + 1 <= Len(parsed.taken)
        /\ TakenKind(e + 1) = "Semi"
        /\ e + 1 \in parsed.semis

\* the tokens in statement position are words, or the `}` of the block
StatementsAreWords ==
    /\ parsed.taken # <<>> => TakenKind(1) = "Word"
    /\ \A i \in parsed.semis :
           i + 1 <= Len(parsed.taken)
               => TakenKind(i + 1) \in {"Word", "RightBrace"}

\* the error names the token the parser stopped at, or EOF
NamesFound ==
    /\ parsed.err = ExpectedSemi =>
           \/ parsed.found = <<>>
           \/ /\ parsed.found = <<parsed.taken[Len(parsed.taken)]>>
              /\ TakenKind(Len(parsed.taken)) # "Semi"
              /\ Len(parsed.taken) - 1 \in parsed.stmts
    /\ parsed.err = ExpectedStatement =>
           /\ parsed.found = <<parsed.taken[Len(parsed.taken)]>>
           /\ TakenKind(Len(parsed.taken)) # "Word"

\* C20: parse returns a Program only if every statement, at top level and
\* inside every block, is immediately followed by a Semi token that the
\* parser consumes; a statement followed by another token, a token that
\* is not a word in statement position, or the end of the input inside a
\* block yields a parse error, naming the token or EOF, and no Program.
C20_StatementsEndInSemi ==
    parsed.done =>
        /\ parsed.err = NoError =>
               /\ StatementsTerminated
               /\ StatementsAreWords
               /\ Braces("LeftBrace") = Braces("RightBrace")
        /\ parsed.err # NoError => parsed.program = <<>> /\ NamesFound

C20_Witness ==
    /\ parsed.done
    /\ parsed.err = NoError
    /\ Cardinality(parsed.stmts) >= 2
    /\ Braces("RightBrace") >= 1
    /\ Len(parsed.program) = 1

(***************************************************************************)
(* The program parse returns, against the tokens of the script             *)
(***************************************************************************)
\* All tokens of a script: Lexer::next called until None; ok is FALSE when
\* the lexer ended with an error or a panic instead.
RECURSIVE lex_all(_, _)
lex_all(r, acc) ==
    IF r.tag = "Some" /\ ~r.lx.panic
       THEN lex_all(lexer_next(r.lx), Append(acc, r.token))
       ELSE [tokens |-> acc, ok |-> r.tag = "None" /\ ~r.lx.panic]

LexAll == lex_all(lexer_next(Lexer(script)), <<>>)

IsWordToken(t) == t.kind.k = "Word"
IsRedirectToken(t) == t.kind.k = "Redirect"
IsPair(t) == IsWordToken(t) /\ parse_name_value_pair(t.kind.v) # <<>>
IsKeyword(t) ==
    /\ IsWordToken(t)
    /\ t.kind.v.value \in {<<"i", "f">>, <<"w", "h", "i", "l", "e">>,
                           <<"e", "x", "p", "o", "r", "t">>}

\* the values carried by the tokens of a sequence, in order
RECURSIVE Values(_)
Values(ts) ==
    IF ts = <<>> THEN <<>> ELSE <<Head(ts).kind.v>> \o Values(Tail(ts))

\* the script is one command: a name, then words and redirections in any
\* order, then the end of the statement
OneCommand(l) ==
    /\ l.ok
    /\ Len(l.tokens) >= 2
    /\ IsWordToken(l.tokens[1])
    /\ ~IsKeyword(l.tokens[1]) /\ ~IsPair(l.tokens[1])
    /\ l.tokens[Len(l.tokens)].kind.k = "Semi"
    /\ \A i \in 2..(Len(l.tokens) - 1) :
           IsWordToken(l.tokens[i]) \/ IsRedirectToken(l.tokens[i])

\* the Command the claim describes for the tokens of one command
InterleavedCommand(ts) ==
    Command(ts[1].kind.v,
            Values(SelectSeq(SubSeq(ts, 2, Len(ts) - 1), IsWordToken)),
            Values(SelectSeq(SubSeq(ts, 2, Len(ts) - 1), IsRedirectToken)),
            <<>>, <<>>)

\* C21: in a command, redirections and arguments may interleave: parsing
\* a name followed by words and redirections in any order succeeds and
\* yields a Command whose arguments are the words in order and whose
\* redirection list holds each Redirect token in source order.
C21_RedirectsInterleave ==
    parsed.done /\ OneCommand(LexAll) =>
        /\ parsed.err = NoError
        /\ parsed.program = <<StmtCommand(InterleavedCommand(LexAll.tokens))>>

\* the script is one statement made of words only, not begun by a keyword
OneWordStatement(l) ==
    /\ l.ok
    /\ Len(l.tokens) >= 2
    /\ l.tokens[Len(l.tokens)].kind.k = "Semi"
    /\ \A i \in 1..(Len(l.tokens) - 1) : IsWordToken(l.tokens[i])
    /\ ~IsKeyword(l.tokens[1])

\* the number of tokens at the head of ts that parse as name/value pairs
RECURSIVE LeadingPairs(_)
LeadingPairs(ts) ==
    IF ts = <<>> THEN 0
    ELSE IF IsPair(Head(ts)) THEN 1 + LeadingPairs(Tail(ts))
    ELSE 0

\* the name/value pairs of a sequence of tokens that are pairs, in order
RECURSIVE PairsOf(_)
PairsOf(ts) ==
    IF ts = <<>> THEN <<>>
    ELSE parse_name_value_pair(Head(ts).kind.v) \o PairsOf(Tail(ts))

\* the statement the claim describes for the words ws of one statement
PairsThenCommand(ws) ==
    LET k == LeadingPairs(ws) IN
    IF k = Len(ws) THEN StmtAssignment(PairsOf(ws))
    ELSE StmtCommand(Command(ws[k + 1].kind.v,
                             Values(SubSeq(ws, k + 2, Len(ws))),
                             <<>>,
                             PairsOf(SubSeq(ws, 1, k)),
                             <<>>))

\* C22: a statement whose leading words all parse as name/value pairs is
\* an Assignment holding those pairs in order; when a word that is not a
\* pair follows the leading pairs, the statement is a Command named by
\* that word, whose env is exactly the leading pairs in order and whose
\* arguments are all later words, those of the form NAME=value too.
C22_AssignmentOrCommand ==
    parsed.done /\ OneWordStatement(LexAll) =>
        /\ parsed.err = NoError
        /\ parsed.program =
               <<PairsThenCommand(SubSeq(LexAll.tokens, 1,
                                         Len(LexAll.tokens) - 1))>>

C22_Witness ==
    /\ parsed.done
    /\ parsed.err = NoError
    /\ Len(parsed.program) = 1
    /\ parsed.program[1].t = "Command"
    /\ Len(parsed.program[1].v.env) = 2
    /\ Len(parsed.program[1].v.arguments) = 1
    /\ IsPair(Token(KWord(parsed.program[1].v.arguments[1]), 1))

\* the script is one statement of words and pipes, begun by a word that
\* is neither a keyword nor a name/value pair
OnePipeline(l) ==
    /\ l.ok
    /\ Len(l.tokens) >= 2
    /\ l.tokens[Len(l.tokens)].kind.k = "Semi"
    /\ \A i \in 1..(Len(l.tokens) - 1) :
           IsWordToken(l.tokens[i]) \/ l.tokens[i].kind.k = "Pipe"
    /\ IsWordToken(l.tokens[1])
    /\ ~IsKeyword(l.tokens[1]) /\ ~IsPair(l.tokens[1])

\* the index of the first Pipe of ts, 0 when it has none
FirstPipe(ts) ==
    LET pipes == {i \in 1..Len(ts) : ts[i].kind.k = "Pipe"} IN
    IF pipes = {} THEN 0 ELSE CHOOSE i \in pipes : \A j \in pipes : i <= j

\* every `|` of ts is followed by a word
RECURSIVE PipesHaveCommands(_)
PipesHaveCommands(ts) ==
    /\ ts # <<>>
    /\ IsWordToken(ts[1])
    /\ FirstPipe(ts) # 0
           => PipesHaveCommands(SubSeq(ts, FirstPipe(ts) + 1, Len(ts)))

\* the chain of Commands for the tokens c1 | c2 | ... | cn: each Command
\* holds the words up to the next pipe and has the rest as its successor
RECURSIVE PipelineOf(_)
PipelineOf(ts) ==
    IF FirstPipe(ts) = 0
       THEN Command(ts[1].kind.v, Values(Tail(ts)), <<>>, <<>>, <<>>)
       ELSE Command(ts[1].kind.v,
                    Values(SubSeq(ts, 2, FirstPipe(ts) - 1)),
                    <<>>, <<>>,
                    <<PipelineOf(SubSeq(ts, FirstPipe(ts) + 1, Len(ts)))>>)

\* C23: a pipeline c1 | c2 | ... | cn parses into a single chain: the
\* Command of c1 has successor c2, which has successor c3, and so on, cn
\* has none; each command owns exactly the words written between its
\* neighbouring pipes; a `|` that is not followed by a word is a parse
\* error.
C23_PipelineChain ==
    parsed.done /\ OnePipeline(LexAll) =>
        LET ts == SubSeq(LexAll.tokens, 1, Len(LexAll.tokens) - 1) IN
        IF PipesHaveCommands(ts)
           THEN /\ parsed.err = NoError
                /\ parsed.program = <<StmtCommand(PipelineOf(ts))>>
           ELSE parsed.err = ExpectedCommand /\ parsed.program = <<>>

C23_Witness ==
    /\ parsed.done
    /\ parsed.err = NoError
    /\ Len(parsed.program) = 1
    /\ parsed.program[1].t = "Command"
    /\ parsed.program[1].v.arguments # <<>>
    /\ parsed.program[1].v.pipeline # <<>>
    /\ parsed.program[1].v.pipeline[1].pipeline # <<>>
    /\ parsed.program[1].v.pipeline[1].pipeline[1].pipeline = <<>>

IsWordOf(t, bytes) == KindEq(t.kind, KWord(Unquoted(bytes)))

\* the index of the first RightBrace of ts, 0 when it has none
FirstRightBrace(ts) ==
    LET rs == {i \in 1..Len(ts) : ts[i].kind.k = "RightBrace"} IN
    IF rs = {} THEN 0 ELSE CHOOSE i \in rs : \A j \in rs : i <= j

\* the tokens between the braces of a block that is empty or holds one
\* command of words
FlatBlock(bs) ==
    \/ bs = <<>>
    \/ /\ Len(bs) >= 2
       /\ bs[Len(bs)].kind.k = "Semi"
       /\ \A i \in 1..(Len(bs) - 1) : IsWordToken(bs[i])
       /\ ~IsKeyword(bs[1]) /\ ~IsPair(bs[1])

\* the Block of the tokens of a flat block
BlockOf(bs) ==
    IF bs = <<>> THEN <<>>
    ELSE <<StmtCommand(Command(bs[1].kind.v,
                               Values(SubSeq(bs, 2, Len(bs) - 1)),
                               <<>>, <<>>, <<>>))>>

\* ts is `if w { block }` followed by nothing, by `else { block }`, or by
\* `else` and again such an if, all blocks flat
RECURSIVE FlatIf(_)
FlatIf(ts) ==
    LET r == FirstRightBrace(ts) IN
    /\ Len(ts) >= 4
    /\ IsWordOf(ts[1], <<"i", "f">>)
    /\ IsWordToken(ts[2])
    /\ ts[3].kind.k = "LeftBrace"
    /\ r > 3
    /\ FlatBlock(SubSeq(ts, 4, r - 1))
    /\ \/ r = Len(ts)
       \/ /\ Len(ts) >= r + 3
          /\ IsWordOf(ts[r + 1], <<"e", "l", "s", "e">>)
          /\ \/ FlatIf(SubSeq(ts, r + 2, Len(ts)))
             \/ /\ ts[r + 2].kind.k = "LeftBrace"
                /\ FirstRightBrace(SubSeq(ts, r + 3, Len(ts))) = Len(ts) - r - 2
                /\ FlatBlock(SubSeq(ts, r + 3, Len(ts) - 1))

\* the IfStmt the claim describes for the tokens of a flat if
RECURSIVE IfOf(_)
IfOf(ts) ==
    LET r == FirstRightBrace(ts) IN
    IfStmt(Command(ts[2].kind.v, <<>>, <<>>, <<>>, <<>>),
           BlockOf(SubSeq(ts, 4, r - 1)),
           IF r = Len(ts) THEN <<>>
           ELSE IF ts[r + 2].kind.k = "LeftBrace"
                THEN <<BlockOf(SubSeq(ts, r + 3, Len(ts) - 1))>>
                ELSE << <<StmtIf(IfOf(SubSeq(ts, r + 2, Len(ts))))>> >>)

\* the script is one if statement with flat blocks
OneIf(l) ==
    /\ l.ok
    /\ Len(l.tokens) >= 2
    /\ l.tokens[Len(l.tokens)].kind.k = "Semi"
    /\ FlatIf(SubSeq(l.tokens, 1, Len(l.tokens) - 1))

\* C24: an `else` on the line of the closing `}` of an if block attaches
\* as the alternate of that If: `else { block }` gives the block,
\* `else if ...` gives an alternate of one statement, the nested If, to
\* any depth; without `else` the alternate is absent.
C24_ElseAttaches ==
    parsed.done /\ OneIf(LexAll) =>
        /\ parsed.err = NoError
        /\ parsed.program =
               <<StmtIf(IfOf(SubSeq(LexAll.tokens, 1,
                                    Len(LexAll.tokens) - 1)))>>

C24_Witness ==
    /\ parsed.done
    /\ parsed.err = NoError
    /\ Len(parsed.program) = 1
    /\ parsed.program[1].t = "If"
    /\ parsed.program[1].v.alternate # <<>>
    /\ Len(parsed.program[1].v.alternate[1]) = 1
    /\ parsed.program[1].v.alternate[1][1].t = "If"
    /\ parsed.program[1].v.alternate[1][1].v.alternate # <<>>
    /\ parsed.program[1].v.alternate[1][1].v.alternate[1] = <<>>

(***************************************************************************)
(* What Interpreter::execute evaluated, in order                           *)
(***************************************************************************)
\* the block of the program a path leads to
RECURSIVE BlockAt(_, _)
BlockAt(block, path) ==
    IF path = <<>> THEN block
    ELSE BlockAt(IF Head(path).b = "consequent"
                    THEN block[Head(path).i].v.consequent
                 ELSE IF Head(path).b = "alternate"
                    THEN block[Head(path).i].v.alternate[1]
                 ELSE block[Head(path).i].v.body,
                 Tail(path))

\* the statement an event is about
StmtAt(ev) == BlockAt(ast, ev.path)[ev.i]

\* event k is about the statement that owns the block entered at event j
Owns(k, j) ==
    /\ trace[j].path = trace[k].path \o <<[i |-> trace[k].i,
                                          b |-> trace[j].path[
                                                    Len(trace[j].path)].b]>>

\* a block is entered directly after the test of its statement, the
\* consequent and the body after Success, the alternate after Failure
EnteredAfterTest(k) ==
    /\ k > 1
    /\ trace[k - 1].e = "test"
    /\ Owns(k - 1, k)
    /\ trace[k - 1].st =
          IF trace[k].path[Len(trace[k].path)].b = "alternate"
             THEN "Failure" ELSE "Success"

\* the first statement of a block other than the program is evaluated
\* directly after the block is entered
BeginsAfterEnter(k) ==
    trace[k].i = 1 /\ trace[k].path # <<>>
    => /\ trace[k - 1].e = "enter"
       /\ trace[k - 1].path = trace[k].path

\* an If evaluates its test once, directly after the statement is matched,
\* and then the consequent after Success and the alternate, when there is
\* one, after Failure
IfTestsOnce(k) ==
    /\ trace[k - 1].e = "begin"
    /\ trace[k - 1].path = trace[k].path
    /\ trace[k - 1].i = trace[k].i
    /\ k < Len(trace) =>
          IF trace[k].st = "Success" \/ StmtAt(trace[k]).v.alternate # <<>>
             THEN trace[k + 1].e = "enter" /\ Owns(k, k + 1)
             ELSE trace[k + 1].e \in {"begin", "leave"}

\* a While evaluates its test when the statement is matched and after
\* every evaluation of its body, and leaves the loop at the first Failure
WhileTestsAgain(k) ==
    /\ \/ /\ trace[k - 1].e = "begin"
          /\ trace[k - 1].path = trace[k].path
          /\ trace[k - 1].i = trace[k].i
       \/ /\ trace[k - 1].e = "leave"
          /\ Owns(k, k - 1)
          /\ trace[k - 1].path[Len(trace[k - 1].path)].b = "body"
    /\ k < Len(trace) =>
          IF trace[k].st = "Success"
             THEN trace[k + 1].e = "enter" /\ Owns(k, k + 1)
             ELSE \/ trace[k + 1].e = "leave"
                     /\ trace[k + 1].path = trace[k].path
                  \/ /\ trace[k + 1].e = "begin"
                     /\ trace[k + 1].path = trace[k].path
                     /\ trace[k + 1].i = trace[k].i + 1

\* the body of a While has returned: the test is evaluated next
TestsAfterBody(k) ==
    /\ trace[k].path # <<>>
    /\ trace[k].path[Len(trace[k].path)].b = "body"
    /\ k < Len(trace)
    => trace[k + 1].e = "test" /\ Owns(k + 1, k)

\* C25: in Interpreter::execute a consequent or a while body is evaluated
\* only directly after the test command of its statement returned Success,
\* and an alternate only directly after the test returned Failure.  An If
\* evaluates its test exactly once and then at most one of consequent and
\* alternate, so the tests of an else-if chain run in order up to the
\* first Success; a While evaluates its test again after every evaluation
\* of its body and stops at the first Failure.
C25_BranchesFollowTests ==
    \A k \in 1..Len(trace) :
        /\ trace[k].e = "enter" => EnteredAfterTest(k)
        /\ trace[k].e = "begin" => BeginsAfterEnter(k)
        /\ trace[k].e = "test" /\ StmtAt(trace[k]).t = "If" => IfTestsOnce(k)
        /\ trace[k].e = "test" /\ StmtAt(trace[k]).t = "While"
              => WhileTestsAgain(k)
        /\ trace[k].e = "leave" => TestsAfterBody(k)

\* `while t { if u { a } else { b } }`: the alternate of the If was
\* evaluated inside the body, and the loop was left at a Failure of t
C25_Witness ==
    /\ \E k \in 1..Len(trace) :
          /\ trace[k].e = "enter"
          /\ Len(trace[k].path) = 2
          /\ trace[k].path[1].b = "body"
          /\ trace[k].path[2].b = "alternate"
    /\ trace # <<>>
    /\ trace[Len(trace)].e = "leave"
    /\ trace[Len(trace)].path = <<>>
    /\ returned = <<NoError>>

\* C26: execution is fail-fast.  When a statement at any depth raises an
\* error (the expansion error of a command, a test, an assignment or an
\* export), execute returns that error: the error is the last thing
\* execute evaluated, no activation is left that could evaluate a later
\* statement or iterate a loop again, and every error raised is returned.
C26_FailFast ==
    /\ \A k \in 1..Len(trace) :
          trace[k].e = "error"
          => /\ k = Len(trace)
             /\ frames = <<>>
             /\ returned = <<trace[k].st>>
    /\ lastOp.err \notin {NoError, Panic}
          => /\ trace # <<>>
             /\ trace[Len(trace)].e = "error"
             /\ trace[Len(trace)].st = lastOp.err

\* `while t { if u { export A B=${ }; a }; b`: the export two blocks deep
\* raised the error execute returned
C26_Witness ==
    /\ trace # <<>>
    /\ trace[Len(trace)].e = "error"
    /\ Len(trace[Len(trace)].path) = 2
    /\ lastOp.op = "export"
    /\ returned = <<MissingBrace>>

\* the script is `c <m; a` and m cannot be opened: the child of the first
\* statement exited 1
UnopenedRedirect ==
    /\ ast = RunPrograms[Len(ControlPrograms) + Len(ErrorPrograms) + 1]
    /\ ~opens([kind |-> "InFile", path |-> ast[1].v.redirects[1].path[1].value,
               mode |-> NoMode])

RECURSIVE Numeral(_)
Numeral(n) ==
    IF n < Len(DigitChars) THEN <<DigitChars[n + 1]>>
    ELSE Append(Numeral(n \div Len(DigitChars)),
                DigitChars[(n % Len(DigitChars)) + 1])

\* execute is about to call execute_command on a command named `name`
\* that has no successor and no assignments; its words are plain, so they
\* expand to themselves
AtBuiltin(name) ==
    /\ shell = "running"
    /\ returned = <<>>
    /\ AtStmt
    /\ Current.t \in {"If", "While", "Command"}
    /\ command_of(Current).name = Unquoted(name)
    /\ command_of(Current).pipeline = <<>>
    /\ command_of(Current).env = <<>>

Arguments ==
    [i \in 1..Len(command_of(Current).arguments) |->
        command_of(Current).arguments[i].value]

\* the process ended with the code
ExitedWith(code) == shell' = "exited" /\ exitCode' = code

\* the step of the built-in exit
ExitStep ==
    AtBuiltin(EXIT)
    => /\ Arguments = <<>> => ExitedWith(0)
       /\ \A n \in 0..MaxExitArg :
             Arguments = <<Numeral(n)>> => ExitedWith(n)
       /\ /\ Len(Arguments) = 1
          /\ \A n \in 0..MaxExitArg : Arguments[1] # Numeral(n)
          => ExitedWith(2)
       /\ Len(Arguments) > 1
          => /\ shell' = "running"
             /\ exitCode' = exitCode
             /\ lastOp'.status = "Failure"
             /\ lastOp'.err = NoError
             /\ returned' = <<>>
             /\ frames' = stmt_frames(frames, Current,
                                      branch_of(Current, "Failure"))

\* C28: the built-in exit with no argument terminates the shell with
\* status 0, with one argument that is a decimal integer with that value,
\* with one argument that is no number with status 2; with more than one
\* argument it does not terminate the shell, it yields Failure and the
\* evaluation goes on with the statements that follow.
C28_ExitBuiltin == [][ExitStep]_vars

\* `exit 1 1; a`: the statement after the exit with two arguments was
\* evaluated
C28_Witness ==
    /\ ast[1].t = "Command"
    /\ ast[1].v.name = Unquoted(EXIT)
    /\ Len(ast[1].v.arguments) = 2
    /\ \E k \in 1..Len(trace) : trace[k].e = "begin" /\ trace[k].i = 2
    /\ lastOp.stmt = CmdA

\* execute is about to call execute_command on a pipeline
AtPipeline ==
    /\ shell = "running"
    /\ returned = <<>>
    /\ AtStmt
    /\ Current.t \in {"If", "While", "Command"}
    /\ command_of(Current).pipeline # <<>>

\* the names of the commands of a pipeline, head first
RECURSIVE Names(_)
Names(c) ==
    <<c.name.value>> \o IF c.pipeline = <<>> THEN <<>>
                        ELSE Names(c.pipeline[1])

\* a pipeline whose head is cd is a hard error: no directory change, no
\* child
CdHeadStep ==
    AtPipeline /\ Head(Names(command_of(Current))) = CD
    => /\ shell' = "panicked"
       /\ cwd' = cwd
       /\ childEnvs' = <<>>

\* cd and exit after the head of a pipeline are spawned like any command
SuccessorStep ==
    /\ AtPipeline
    /\ Head(Names(command_of(Current))) \notin {CD, EXIT}
    /\ \E i \in 2..Len(Names(command_of(Current))) :
          Names(command_of(Current))[i] \in {CD, EXIT}
    => /\ shell' = "running"
       /\ cwd' = cwd
       /\ Len(childEnvs') = Len(Names(command_of(Current)))

\* exit at the head of a pipeline does not end the process
ExitHeadStep ==
    AtPipeline /\ Head(Names(command_of(Current))) = EXIT
    => shell' # "exited"

\* C29: built-ins are dispatched only for a command that has no
\* successor.  A pipeline whose head is cd is a hard error that neither
\* changes the working directory nor forks; a cd or exit after the head
\* of a pipeline is spawned as an external command and neither changes
\* the working directory nor terminates the shell; and an exit at the head
\* of a pipeline does not terminate the shell in-process.
C29_BuiltinsOnlyAlone ==
    [][CdHeadStep /\ SuccessorStep /\ ExitHeadStep]_vars

\* the path Cwd::cd hands to chdir: the argument, for `-` the previous
\* directory or the current one when there is none, without an argument
\* the home directory
CdTarget ==
    IF Arguments = <<>> THEN home_dir
    ELSE IF Arguments[1] # <<"-">> THEN Arguments[1]
    ELSE IF cwd.last # <<>> THEN cwd.last[1]
    ELSE cwd.path

\* the step of the built-in cd
CdStep ==
    AtBuiltin(CD)
    => /\ Len(Arguments) > 1 => lastOp'.status = "Failure"
       /\ Len(Arguments) <= 1 /\ ~chdir_ok(cwd, CdTarget)
          => lastOp'.status = "Failure"
       /\ lastOp'.status = "Failure" => cwd' = cwd
       /\ cwd' # cwd => lastOp'.status = "Success"
       /\ lastOp'.status = "Success"
          => /\ Len(Arguments) <= 1
             /\ cwd'.last = <<cwd.path>>
             /\ cwd'.path \in Dirs
             /\ <<cwd'.path>> = canonicalize(join(cwd.path, CdTarget))

\* C30: Cwd::cd returns Failure and leaves the current and the previous
\* directory of the tracker unchanged when it is given more than one
\* argument or when chdir to the target fails; only a successful chdir
\* changes the tracker: the previous directory becomes the old current one
\* and the current one the canonical new path.
C30_CdTracksSuccess == [][CdStep]_vars

\* `cd h/.; cd ..; cd; cd x; cd /h /; cd -`: the fourth and the fifth
\* cd failed in /h with previous directory /, the sixth went back to /
C30_Witness ==
    /\ cwd = [path |-> <<"/">>, last |-> <<<<"/", "h">>>>]
    /\ lastOp.op = "command"
    /\ lastOp.stmt = Cmd(CD, <<<<"-">>>>)
    /\ \E k \in 1..Len(trace) : trace[k].e = "begin" /\ trace[k].i = 6

\* the command execute ran last was a cd without a successor that returned
\* Success
AfterCd ==
    /\ lastOp.op = "command"
    /\ lastOp.stmt.name = Unquoted(CD)
    /\ lastOp.stmt.pipeline = <<>>
    /\ lastOp.err = NoError
    /\ lastOp.status = "Success"

\* a successful `cd -` directly after a successful cd, `cd -` or `cd X`:
\* the current directory is again what it was before that cd
CdBackStep ==
    /\ AfterCd
    /\ AtBuiltin(CD)
    /\ Arguments = <<<<"-">>>>
    /\ lastOp'.status = "Success"
    => cwd'.path = lastOp.was.path

\* C31: from every reachable state of the tracker, the initial one without
\* a previous directory included, two consecutive successful `cd -` leave
\* the current directory what it was before the first; and after a
\* successful `cd X` a successful `cd -` makes the current directory the
\* one that was current before `cd X`.
C31_CdDashReturns == [][CdBackStep]_vars

\* `cd -; cd -; ...`: both ran from the initial tracker, which has no
\* previous directory
C31_Witness ==
    /\ AfterCd
    /\ lastOp.stmt.arguments = <<Unquoted(<<"-">>)>>
    /\ lastOp.was = [path |-> <<"/">>, last |-> <<<<"/">>>>]
    /\ cwd = [path |-> <<"/">>, last |-> <<<<"/">>>>]
    /\ Len(trace) = 2

\* the step of a cd without argument: it goes where `~` expands to, the
\* value of HOME in the environment of the interpreter
CdHomeStep ==
    AtBuiltin(CD) /\ Arguments = <<>>
    => /\ expand(passwd, env, Unquoted(<<"~">>)).value = home(env)
       /\ IF chdir_ok(cwd, home(env))
             THEN /\ lastOp'.status = "Success"
                  /\ <<cwd'.path>> = canonicalize(join(cwd.path, home(env)))
             ELSE /\ lastOp'.status = "Failure"
                  /\ cwd' = cwd

\* C32: cd without an argument changes to the value HOME has in the
\* environment of the interpreter at that time, the value `~` expands to,
\* also after an assignment or an export statement of the program has
\* changed HOME.
C32_CdGoesHome == [][CdHomeStep]_vars

(***************************************************************************)
(* Claims about spawn_children and execute_child                           *)
(***************************************************************************)
\* the stream command i of the pipeline is forked for on descriptor fd:
\* the pipe from its predecessor, the pipe to its successor, or the
\* shell's own stream
Initially(i, fd) ==
    CASE fd = STDIN_FILENO /\ i > 1 -> ReadEnd(i - 1)
      [] fd = STDOUT_FILENO /\ i < Len(cmds) -> WriteEnd(i)
      [] OTHER -> Tty

\* what descriptor fd of command i refers to when the first k redirects
\* are done: what the last of them that names fd gives it
RECURSIVE Stream(_, _, _)
Stream(i, fd, k) ==
    IF k = 0 THEN Initially(i, fd)
    ELSE LET r == cmds[i].redirects[k] IN
         CASE r.kind = "InFile" /\ fd = STDIN_FILENO ->
                 OpenFile(r.path, "Read")
           [] r.kind = "OutFile" /\ fd = STDOUT_FILENO ->
                 OpenFile(r.path, r.mode)
           [] r.kind = "ErrFile" /\ fd = STDERR_FILENO ->
                 OpenFile(r.path, r.mode)
           [] r.kind = "OutErr" /\ fd = STDOUT_FILENO ->
                 Stream(i, STDERR_FILENO, k - 1)
           [] r.kind = "ErrOut" /\ fd = STDERR_FILENO ->
                 Stream(i, STDOUT_FILENO, k - 1)
           [] OTHER -> Stream(i, fd, k - 1)

\* the child is past the dup2s of its pipe ends
PastPipes(i) == kids[i].pc \in {"redirects", "execv", "program"}

\* C33: in the child the pipe ends are installed first and the redirects
\* are then applied one by one in the order written, each on the descriptors
\* as they stand: after k redirects each of the descriptors 0, 1 and 2
\* refers to what the last redirect naming it gave it, a file overrides a
\* pipe end, `>f 2>&1` leaves 1 and 2 on f, and `2>&1 >f` leaves 2 on the
\* stdout that was in effect before and 1 on f.
C33_RedirectsInOrder ==
    /\ spawner # <<>> =>
         \A i \in DOMAIN kids :
            PastPipes(i) =>
               \A fd \in {STDIN_FILENO, STDOUT_FILENO, STDERR_FILENO} :
                  kids[i].fds[fd] = Stream(i, fd, kids[i].todo - 1)
    /\ spawner # <<>> /\ cmds = SpawnPipelines[2] /\ kids[1].pc = "program"
         => /\ kids[1].fds[STDOUT_FILENO] = OpenFile(<<"f">>, Truncate)
            /\ kids[1].fds[STDERR_FILENO] = OpenFile(<<"f">>, Truncate)
    /\ spawner # <<>> /\ cmds = SpawnPipelines[3] /\ kids[1].pc = "program"
         => /\ kids[1].fds[STDOUT_FILENO] = OpenFile(<<"f">>, Truncate)
            /\ kids[1].fds[STDERR_FILENO] = WriteEnd(1)
    /\ spawner # <<>> /\ cmds = SpawnPipelines[4] /\ kids[2].pc = "program"
         => kids[2].fds[STDIN_FILENO] = OpenFile(<<"f">>, "Read")

\* `a 2>&1 >f | b`: a runs with stderr on the pipe and stdout on f
C33_Witness ==
    /\ spawner # <<>>
    /\ cmds = SpawnPipelines[3]
    /\ kids[1].pc = "program"
    /\ kids[1].fds[STDERR_FILENO] = WriteEnd(1)
    /\ kids[1].fds[STDOUT_FILENO] = OpenFile(<<"f">>, Truncate)

\* the answers the host gave to the candidates child i has tried
Answers(i) ==
    [c \in 1..Len(kids[i].tried) |-> execve_answer(host, kids[i].tried[c])]

\* child i has tried the first candidates of its name, in their order
TriedInOrder(i) ==
    /\ Len(kids[i].tried) <= Len(candidates(cmds[i].name))
    /\ \A c \in 1..Len(kids[i].tried) :
          kids[i].tried[c] = candidates(cmds[i].name)[c]

\* every candidate before the last one tried was answered with ENOENT
MovedOnAfterENOENT(i) ==
    \A c \in 1..(Len(kids[i].tried) - 1) : Answers(i)[c] = ENOENT

\* how the search of child i stands, by the answer to the last candidate
SearchOutcome(i) ==
    LET n == Len(kids[i].tried)
        all == Len(candidates(cmds[i].name))
    IN CASE n = 0 -> kids[i].pc \in {"unborn", "pipes", "redirects",
                                      "returned", "exited", "execv"}
                      /\ kids[i].printed \in {"nothing", "error"}
         [] n > 0 /\ Answers(i)[n] = ExecOk ->
               kids[i].pc \in {"program", "ended"}
         [] n > 0 /\ Answers(i)[n] = ENOENT ->
               IF n < all THEN kids[i].pc = "execv"
               ELSE \/ kids[i].pc = "execv"
                    \/ /\ kids[i].pc = "exited"
                       /\ kids[i].code = 1
                       /\ kids[i].printed = "command not found"
         [] OTHER ->
               /\ kids[i].pc = "exited"
               /\ kids[i].code = 1
               /\ kids[i].printed = "errno"

\* C34: a name without a slash is tried in the directories of PATH in their
\* order and the child runs the first candidate execve does not answer with
\* ENOENT; ENOENT moves on, any other errno ends the search with exit 1
\* whatever the later directories hold, PATH exhausted prints `command not
\* found` and exits with 1; a name with a slash is tried once, as it is.
C34_PathSearch ==
    spawner # <<>> =>
       \A i \in DOMAIN kids :
          /\ TriedInOrder(i)
          /\ MovedOnAfterENOENT(i)
          /\ SearchOutcome(i)
          /\ is_exact(cmds[i].name) => Len(kids[i].tried) <= 1
          /\ ~is_exact(cmds[i].name) =>
                \A c \in 1..Len(kids[i].tried) : kids[i].tried[c] = c

\* `a` with PATH=/a:/b:/c where /a/a is missing, /b/a is not executable and
\* /c/a is: the child has exited with 1 without trying /c/a
C34_Witness ==
    /\ spawner # <<>>
    /\ cmds = SpawnPipelines[1]
    /\ host.path = <<ENOENT, EACCES, ExecOk>>
    /\ kids[1].pc = "exited"
    /\ kids[1].tried = <<1, 2>>

(***************************************************************************)
(* Claims about the REPL                                                   *)
(***************************************************************************)
\* C35: in the REPL every accepted line is parsed and executed and any
\* error of the line, a failing or malformed cd included, is printed, after
\* which the next prompt is shown: the REPL leaves its loop only when
\* readline has reported the end of the input.
C35_ReplEndsAtEndOfInput ==
    repl # <<>> /\ repl.pc # "prompt" => repl.eof

(***************************************************************************)
(* Claims about the signal mask around the wait loop                       *)
(***************************************************************************)
\* C36: when execute has returned the shell's signal mask is the mask it
\* had before the wait loop blocked SIGINT, SIGQUIT and SIGCHLD, whatever
\* that mask was, also when some of the three were blocked in it.
C36_MaskRestored ==
    pc = "done" => mask = mask0

(***************************************************************************)
(* Claims about the pipes of a pipeline                                    *)
(***************************************************************************)
\* the processes that have a descriptor on d: 0 is the shell, i the child
\* forked for command i
Holders(d) ==
    {i \in DOMAIN kids : \E fd \in DOMAIN kids[i].fds : kids[i].fds[fd] = d}
    \cup {z \in {0} : \E fd \in DOMAIN spawner.fds : spawner.fds[fd] = d}

\* the pipe of a writer exists when the writer is forked, and n commands
\* get n - 1 pipes
PipesBeforeForks ==
    /\ \A i \in DOMAIN kids :
          kids[i].pc # "unborn" /\ i < Len(cmds) => spawner.pipes >= i
    /\ spawner.pc = "returned" => spawner.pipes = Len(cmds) - 1

\* the shell returns from spawn_children without a pipe descriptor
ParentHoldsNoPipe ==
    spawner.pc = "returned" =>
       \A fd \in DOMAIN spawner.fds : spawner.fds[fd] = Tty

\* only the producer has the write end of a pipe
WriteEndOnlyInProducer ==
    spawner.pc = "returned" =>
       \A n \in 1..spawner.pipes : Holders(WriteEnd(n)) \subseteq {n}

\* only the consumer has the read end of a pipe
ReadEndOnlyInConsumer ==
    spawner.pc = "returned" =>
       \A n \in 1..spawner.pipes : Holders(ReadEnd(n)) \subseteq {n + 1}

\* nobody has the read end of a pipe open once its consumer is gone
ReadEndGoneWithConsumer ==
    \A n \in 1..(Len(cmds) - 1) :
       kids[n + 1].pc \in {"ended", "exited"} => Holders(ReadEnd(n)) = {}

\* C37: n commands get n - 1 pipes, each made before its writer is forked;
\* when all children are spawned the shell holds no pipe descriptor, the
\* write end of a pipe is open in its producer only and the read end in
\* its consumer only, so that nobody else, the producer included, has the
\* read end open once the consumer has exited.
C37_PipeEndsInOneProcess ==
    spawner # <<>> =>
       /\ PipesBeforeForks
       /\ ParentHoldsNoPipe
       /\ WriteEndOnlyInProducer
       /\ ReadEndOnlyInConsumer
       /\ ReadEndGoneWithConsumer

(***************************************************************************)
(* Claims about how a child ends                                           *)
(***************************************************************************)
\* child i is inside execute_child or in the Child arm that called it
InChild(i) ==
    kids[i].pc \in {"pipes", "redirects", "execv", "returned"}

\* C38: a forked child never resumes the shell's control flow: whatever
\* happens in execute_child (exec, a redirect that cannot be opened, a
\* failing dup2, a failing exec, command not found) the child becomes the
\* program it exec'd or exits with 1; it does not go back to the loop of
\* spawn_children, to the wait loop or to the statements of the script.
C38_ChildNeverResumes ==
    spawner # <<>> =>
       \A i \in DOMAIN kids :
          /\ kids[i].pc # "unborn" /\ ~InChild(i) =>
                \/ kids[i].pc \in {"program", "ended"}
                   /\ kids[i].tried # <<>>
                   /\ execve_answer(host, kids[i].tried[Len(kids[i].tried)])
                         = ExecOk
                \/ kids[i].pc = "exited" /\ kids[i].code = 1
          /\ kids[i].pc = "returned" => kids[i].tried = <<>>

\* `a <m`: the child could not open m, printed the error and exited with 1
C38_Witness ==
    /\ spawner # <<>>
    /\ cmds = SpawnPipelines[7]
    /\ kids[1].pc = "exited"
    /\ kids[1].printed = "error"
    /\ kids[1].code = 1

(***************************************************************************)
(* Claims about the expansion of a pipeline                                *)
(***************************************************************************)
\* the words of one command: its name, its arguments, the paths of its
\* redirects and the values of its assignments
Words(c) ==
    <<c.name>> \o c.arguments
    \o [i \in 1..Len(c.env) |-> c.env[i].value]
    \o SelectSeq([i \in 1..Len(c.redirects) |->
                     IF c.redirects[i].path # <<>>
                        THEN c.redirects[i].path[1]
                        ELSE Unquoted(<<>>)],
                 LAMBDA w : w.value # <<>>)

\* some word of the command or of a successor cannot be expanded
ExpansionFails(c) ==
    \E i \in 1..Len(Chain(c)) :
       \E j \in 1..Len(Words(Chain(c)[i])) :
          expand(passwd, env, Words(Chain(c)[i])[j]).err # NoError

\* the step of execute_command on a command with such a word
FailedExpansionStep ==
    /\ Executing
    /\ AtStmt
    /\ Current.t \in {"If", "While", "Command"}
    /\ ExpansionFails(command_of(Current))
    => /\ lastOp'.err # NoError
       /\ returned' = <<lastOp'.err>>
       /\ childEnvs' = <<>>
       /\ env' = env
       /\ cwd' = cwd
       /\ shell' = "running"

\* C39: the words of a command and of every successor in its pipeline
\* (names, arguments, redirect paths, values of inline assignments) are
\* expanded before a built-in runs or a child is forked: when one of them
\* cannot be expanded execute_command returns the error, no child is
\* forked, and the environment and the working directory are as before.
C39_ExpandedFirst ==
    [][FailedExpansionStep]_vars

\* `exit | ls ${`: the error of the successor was returned, the shell runs
C39_Witness ==
    /\ lastOp.op = "command"
    /\ lastOp.stmt.name = Unquoted(EXIT)
    /\ lastOp.stmt.pipeline # <<>>
    /\ lastOp.err # NoError
    /\ shell = "running"
    /\ returned = <<lastOp.err>>

(***************************************************************************)
(* Claims about `|`, `{` and `}` next to word bytes                        *)
(***************************************************************************)
\* the number of bytes b in the script
CountBytes(b) == Cardinality({i \in 1..Len(script) : script[i] = b})

\* the number of tokens of kind k yielded
CountKinds(k) == Cardinality({i \in 1..Len(tokens) : tokens[i].kind.k = k})

\* no byte of the script opens a quoted word
Quoteless == \A i \in 1..Len(script) : script[i] \notin {"\"", "'"}

\* C40: an unquoted `|`, `{` or `}` produces a Pipe, LeftBrace or
\* RightBrace token wherever it stands outside quotes, also directly after
\* the bytes of a word: a script without quotes that is tokenized to its
\* end yields one such token for each such byte, `a|a` yields Word(a),
\* Pipe, Word(a) and `{a a}` yields LeftBrace, Word(a), Word(a), Semi,
\* RightBrace.
C40_PunctuationEndsWord ==
    lexStatus = "done" /\ Quoteless =>
        /\ CountKinds("Pipe") = CountBytes("|")
        /\ CountKinds("LeftBrace") = CountBytes("{")
        /\ CountKinds("RightBrace") = CountBytes("}")
        /\ script = <<"a", "|", "a">> =>
              /\ Len(tokens) >= 3
              /\ tokens[1].kind = KWord(Unquoted(<<"a">>))
              /\ tokens[2].kind.k = "Pipe"
              /\ tokens[3].kind = KWord(Unquoted(<<"a">>))
        /\ script = <<"{", "a", " ", "a", "}">> =>
              Kinds = <<"LeftBrace", "Word", "Word", "Semi", "RightBrace">>

====
